---- MODULE Spec2Model ----
(***************************************************************************)
(* Verification model of sup3 (lsr0/sup3): the transfer orchestrator of    *)
(* src/transfer.rs (upload, download and their recursive task trees under  *)
(* a permit pool and a cancellation token) and the Partial-File writer of  *)
(* src/s3/partial_file.rs as Client::get of src/s3.rs drives it.           *)
(***************************************************************************)
EXTENDS Integers, Sequences, FiniteSets, TLC

(***************************************************************************)
(* Bounds of the model.                                                    *)
(***************************************************************************)
MaxTasks == 3
MaxConcurrency == 2
MaxRoots == 3
NumPaths == 2
MaxChunks == 2
MaxGlobLen == 5
MaxKeyLen == 4
MaxDepth == 2
MaxUris == 2
MaxCalls == 2
MaxRelLen == 3
MaxObjs == 3
PageSize == 2
MaxStrings == 2
MaxPathLen == 3

Tasks == 1..MaxTasks
Paths == 1..NumPaths

VARIABLES
  opts,              \* command line: mode, concurrency, continue_on_error, recursive, nroots
  mainpc,            \* position of upload()/download(): "push", "select", "returned"
  pushed,            \* roots pushed so far by the for loop
  main_error_count,  \* error_count of upload()/download()
  result,            \* MainResult returned, "none" before
  cancellation,      \* the CancellationToken
  permits,           \* permits available in the semaphore
  ntasks,            \* task futures created so far
  pc,                \* position of each upload_recursive_one/download_recursive_one future
  parent,            \* the future whose FuturesUnordered owns the task, 0 for upload()/download()
  error_count,       \* error_count local of each task
  dirdone,           \* download page loop: the Directory item of the next key was handled
  lpath,             \* local final path of a download task's PartialFile
  ret,               \* value a task has just returned to the futures.next() polling it
  temps,             \* final paths whose ".sup3.partial" sibling exists on disk
  hist,              \* observation of the run: failures that happened, cancellation timing
  \* one Client::get with its PartialFile, at the level of bytes and files
  g_pc,              \* position of Client::get
  g_obj,             \* the chunks the response body will yield
  g_sent,            \* chunks the body has yielded so far
  g_written,         \* chunks write_all has accepted, in order
  g_buf,             \* data accepted by the writer and not yet in the file
  g_writer,          \* PartialFile.writer is Some
  g_fs,              \* the directory: what each path holds
  g_fs0,             \* the directory when the download began
  g_res,             \* what Client::get returned: "none", "ok", "err"
  g_how,             \* how the PartialFile ended
  g_cancel,          \* outcome of PartialFile::cancel
  \* one call of a function on keys, paths or patterns
  f_call,            \* the function called and its arguments
  f_done,            \* the call has returned
  f_out,             \* what it returned
  \* one SeenDirectories instance
  sd_prefix_len,     \* SeenDirectories.prefix_len, -1 before new()
  sd_prefix,         \* the prefix new() was given
  sd_seen,           \* SeenDirectories.seen
  sd_log,            \* the lists add_key has returned, in call order
  sd_keys,           \* the keys add_key was called with, in call order
  \* one recursive download of a prefix through RecursiveListStream
  l_key,             \* the requested Uri key
  l_store,           \* the object keys the backend holds under the prefix
  l_token,           \* RecursiveListStream.continuation_token: <<>> is None
  l_pc,              \* "idle", "stream", "done" (stream ended), "no_such_key" and
                     \* "err" (the page was an Err: error_count += 1, break)
  l_started,         \* child downloads pushed: key, the local path it writes, and
                     \* its place in the sequence of entries handled
  l_dirs,            \* Directory entries handled: announced key, the local path given
                     \* to create_dir (<<>>: none), and place in the sequence
  \* two Client::get calls of one command whose Target::local_path is the same path
  p_len,             \* chunks in the body of each source object
  p_pc,              \* position of each get: "create", "loop", "ok", "err"
  p_off,             \* chunks each get has written through its own file handle
  p_ino,             \* the file each handle is open on, 0 before File::create
  p_data,            \* content of each file: the number of the get that wrote the
                     \* chunk, 0 for a hole
  p_dir,             \* the directory: the file each of the two paths names, 0 for none
  \* one run of Client::ls
  ls_args,           \* the Uri key, the glob option and the ListArguments
  ls_pc,             \* "idle", "start", "probe" (the directory listing is to be
                     \* requested), "more" (a continuation is to be requested), "done",
                     \* "err" (a request failed) and "panic"
  ls_root,           \* relative_root
  ls_token,          \* continuation_token: <<>> is None
  ls_reqs,           \* the listing requests sent, each with the token of its answer
  ls_log             \* every name ls_consume_response looked at, in order: the page,
                     \* the directory_prefix it was held against, what
                     \* key_matches_requested said and the name to print

tvars == <<opts, mainpc, pushed, main_error_count, result, cancellation, permits,
           ntasks, pc, parent, error_count, dirdone, lpath, ret, temps, hist>>

gvars == <<g_pc, g_obj, g_sent, g_written, g_buf, g_writer, g_fs, g_fs0, g_res, g_how,
           g_cancel>>

fvars == <<f_call, f_done, f_out>>

sdvars == <<sd_prefix_len, sd_prefix, sd_seen, sd_log, sd_keys>>

lvars == <<l_key, l_store, l_token, l_pc, l_started, l_dirs>>

pvars == <<p_len, p_pc, p_off, p_ino, p_data, p_dir>>

lsvars == <<ls_args, ls_pc, ls_root, ls_token, ls_reqs, ls_log>>

svars == <<fvars, sdvars, lvars, pvars, lsvars>>

vars == <<tvars, gvars, svars>>

mainv == <<mainpc, pushed, main_error_count, result>>
locals == <<error_count, dirdone, lpath>>

NoRet == [t |-> 0, count |-> 0]

\* positions at which a task owns an OwnedSemaphorePermit
Holding == {"stat", "put", "get", "write"}
\* positions at which a leaf transfer (put, or get attempt) is in flight
LeafPcs == {"put", "get", "write"}
\* futures created but never polled past the permit acquisition
Unstarted == {"listed", "pending"}
Terminal == {"absent", "done", "dropped", "discarded"}

from_error_count(count) ==
  IF count = 0 THEN "Success" ELSE "ErrorSomeOperationsFailed"

RECURSIVE Ancestors(_)
Ancestors(t) ==
  IF parent[t] = 0 THEN {} ELSE {parent[t]} \cup Ancestors(parent[t])

LiveChildren(p) == {c \in Tasks : pc[c] \notin Terminal /\ parent[c] = p}
LiveDesc(p) == {x \in Tasks : pc[x] \notin Terminal /\ p \in Ancestors(x)}
AllLive == {x \in Tasks : pc[x] \notin Terminal}

\* a future dropped by its owner: what it was doing is abandoned
DroppedPc(s) == IF s \in Unstarted THEN "discarded" ELSE "dropped"

\* task t is being polled: every owner up to the select! loop awaits futures.next()
Polling(t) ==
  /\ mainpc = "select"
  /\ ret = NoRet
  /\ pc[t] \notin Terminal
  /\ (IF parent[t] = 0 THEN TRUE ELSE pc[parent[t]] = "drain")

\* Drop for PartialFile of every writer in S: cancel() flushes and removes the temp
\* file; a failed removal is only logged
DropPartialFiles(S) ==
  LET P == {lpath[x] : x \in {y \in S : pc[y] = "write"}} IN
  \E keep \in SUBSET (P \cap temps) : temps' = (temps \ P) \cup keep

\* the locals of the futures in S go away with them
DropLocals(S) ==
  /\ error_count' = [x \in Tasks |-> IF x \in S THEN 0 ELSE error_count[x]]
  /\ dirdone' = [x \in Tasks |-> IF x \in S THEN FALSE ELSE dirdone[x]]
  /\ lpath' = [x \in Tasks |-> IF x \in S THEN 0 ELSE lpath[x]]

\* task t returns k to its owner; its permit and the futures it still owns are dropped
TaskReturn(t, k) ==
  LET S == LiveDesc(t) IN
  /\ pc' = [x \in Tasks |-> IF x = t THEN "done"
                            ELSE IF x \in S THEN DroppedPc(pc[x]) ELSE pc[x]]
  /\ permits' = permits + Cardinality({x \in S \cup {t} : pc[x] \in Holding})
  /\ ret' = [t |-> t, count |-> k]
  /\ DropLocals(S \cup {t})

\* no function call is being followed
FnIdle == f_call = [fn |-> "none"] /\ f_done = FALSE /\ f_out = FALSE

\* no SeenDirectories instance is being followed
SeenIdle ==
  sd_prefix_len = -1 /\ sd_prefix = <<>> /\ sd_seen = {} /\ sd_log = <<>> /\ sd_keys = <<>>

\* no recursive listing is being followed
ListIdle ==
  /\ l_key = <<>> /\ l_store = {} /\ l_token = <<>> /\ l_pc = "idle"
  /\ l_started = {} /\ l_dirs = {}

\* no pair of downloads to one path is being followed
PairIdle ==
  /\ p_len = <<>> /\ p_pc = <<>> /\ p_off = <<>> /\ p_ino = <<>> /\ p_data = <<>>
  /\ p_dir = <<>>

LsIdle ==
  /\ ls_args = <<>> /\ ls_pc = "idle" /\ ls_root = <<>> /\ ls_token = <<>>
  /\ ls_reqs = <<>> /\ ls_log = <<>>

StrIdle == FnIdle /\ SeenIdle /\ ListIdle /\ PairIdle /\ LsIdle

\* no single download is being followed byte by byte
GetIdle ==
  /\ g_pc = "idle" /\ g_obj = <<>> /\ g_sent = 0 /\ g_written = <<>> /\ g_buf = <<>>
  /\ g_writer = FALSE /\ g_fs = [n \in {} |-> 0] /\ g_fs0 = [n \in {} |-> 0]
  /\ g_res = "none" /\ g_how = "none" /\ g_cancel = "none"

Init ==
  /\ GetIdle
  /\ StrIdle
  /\ opts \in [mode : {"upload", "download"}, concurrency : 1..MaxConcurrency,
               continue_on_error : BOOLEAN, recursive : BOOLEAN, nroots : 1..MaxRoots]
  /\ mainpc = "push"
  /\ pushed = 0
  /\ main_error_count = 0
  /\ result = "none"
  /\ cancellation = FALSE
  /\ permits = opts.concurrency
  /\ ntasks = 0
  /\ pc = [t \in Tasks |-> "absent"]
  /\ parent = [t \in Tasks |-> 0]
  /\ error_count = [t \in Tasks |-> 0]
  /\ dirdone = [t \in Tasks |-> FALSE]
  /\ lpath = [t \in Tasks |-> 0]
  /\ ret = NoRet
  /\ temps = {}
  /\ hist = [leafFail |-> 0, expFail |-> 0, dirSkipped |-> 0, cancelOutstanding |-> FALSE,
             noSuchKey |-> FALSE, dirExisted |-> FALSE]

\* the for loop of upload()/download(): push one root future, then test the token
push_root ==
  /\ mainpc = "push"
  /\ ntasks < MaxTasks
  /\ ntasks' = ntasks + 1
  /\ pc' = [pc EXCEPT ![ntasks + 1] = "pending"]
  /\ pushed' = pushed + 1
  /\ mainpc' = IF cancellation \/ pushed + 1 = opts.nroots THEN "select" ELSE "push"
  /\ UNCHANGED <<svars, gvars, opts, main_error_count, result, cancellation, permits, parent,
                 locals, ret, temps, hist>>

\* ctrl_c fires: the spawned task cancels the token
ctrlc_cancel ==
  /\ ~cancellation
  /\ mainpc # "returned"
  /\ cancellation' = TRUE
  /\ hist' = [hist EXCEPT !.cancelOutstanding =
                 mainpc = "select" /\ \E r \in Tasks : parent[r] = 0 /\ pc[r] \notin Terminal]
  /\ UNCHANGED <<svars, gvars, opts, mainv, permits, ntasks, pc, parent, locals, ret, temps>>

\* drop(token): the permit goes back to the semaphore
drop_token_leaked(n) == n
drop_token(n) == n + 1

\* a permit can be taken only while the semaphore has one
permit_ungated(n) == TRUE
permit_available(n) == n > 0

\* semaphore.acquire_owned().await of either recursive function
acquire_owned(t) ==
  /\ Polling(t)
  /\ pc[t] = "pending"
  /\ permit_available(permits)
  /\ permits' = permits - 1
  /\ pc' = [pc EXCEPT ![t] = IF opts.mode = "upload" THEN "stat" ELSE "get"]
  /\ UNCHANGED <<svars, gvars, opts, mainv, cancellation, ntasks, parent, locals, ret, temps, hist>>

(***************************************************************************)
(* upload_recursive_one and upload_single (src/transfer.rs).               *)
(***************************************************************************)

\* tokio::fs::metadata fails: "failed to access local path", return 1
stat_err(t) ==
  /\ opts.mode = "upload"
  /\ Polling(t)
  /\ pc[t] = "stat"
  /\ TaskReturn(t, 1)
  /\ hist' = [hist EXCEPT !.leafFail = @ + 1]
  /\ UNCHANGED <<svars, gvars, opts, mainv, cancellation, ntasks, parent, temps>>

\* the path is not a directory: upload_single takes the permit and calls client.put
stat_file(t) ==
  /\ opts.mode = "upload"
  /\ Polling(t)
  /\ pc[t] = "stat"
  /\ pc' = [pc EXCEPT ![t] = "put"]
  /\ UNCHANGED <<svars, gvars, opts, mainv, cancellation, permits, ntasks, parent, locals, ret,
                 temps, hist>>

\* the path is a directory: without recursive a failure, with it drop(token) and list
stat_dir(t) ==
  /\ opts.mode = "upload"
  /\ Polling(t)
  /\ pc[t] = "stat"
  /\ IF opts.recursive
       THEN /\ pc' = [pc EXCEPT ![t] = "read_dir"]
            /\ permits' = drop_token(permits)
            /\ UNCHANGED <<ret, hist, locals>>
       ELSE /\ TaskReturn(t, 1)
            /\ hist' = [hist EXCEPT !.expFail = @ + 1]
  /\ UNCHANGED <<svars, gvars, opts, mainv, cancellation, ntasks, parent, temps>>

\* client.put succeeded: upload_single returns 0
put_ok(t) ==
  /\ opts.mode = "upload"
  /\ Polling(t)
  /\ pc[t] = "put"
  /\ TaskReturn(t, 0)
  /\ UNCHANGED <<svars, gvars, opts, mainv, cancellation, ntasks, parent, temps, hist>>

\* client.put failed: upload_single returns 1
put_err(t) ==
  /\ opts.mode = "upload"
  /\ Polling(t)
  /\ pc[t] = "put"
  /\ TaskReturn(t, 1)
  /\ hist' = [hist EXCEPT !.leafFail = @ + 1]
  /\ UNCHANGED <<svars, gvars, opts, mainv, cancellation, ntasks, parent, temps>>

\* the directory name is not unicode, or tokio::fs::read_dir fails: return 1
read_dir_err(t) ==
  /\ opts.mode = "upload"
  /\ Polling(t)
  /\ pc[t] = "read_dir"
  /\ TaskReturn(t, 1)
  /\ hist' = [hist EXCEPT !.expFail = @ + 1]
  /\ UNCHANGED <<svars, gvars, opts, mainv, cancellation, ntasks, parent, temps>>

read_dir_ok(t) ==
  /\ opts.mode = "upload"
  /\ Polling(t)
  /\ pc[t] = "read_dir"
  /\ pc' = [pc EXCEPT ![t] = "enumerate"]
  /\ UNCHANGED <<svars, gvars, opts, mainv, cancellation, permits, ntasks, parent, locals, ret,
                 temps, hist>>

\* files.next_entry() yields an entry: push the child future (not polled yet)
next_entry_some(t) ==
  /\ opts.mode = "upload"
  /\ Polling(t)
  /\ pc[t] = "enumerate"
  /\ ntasks < MaxTasks
  /\ ntasks' = ntasks + 1
  /\ pc' = [pc EXCEPT ![ntasks + 1] = "pending"]
  /\ parent' = [parent EXCEPT ![ntasks + 1] = t]
  /\ UNCHANGED <<svars, gvars, opts, mainv, cancellation, permits, locals, ret, temps, hist>>

\* the loop over the entries has ended with error_count ec: await the children, or
\* return at once when there is none (futures.next() of an empty set is None)
enumerate_end(t, ec) ==
  IF LiveChildren(t) = {}
    THEN TaskReturn(t, ec)
    ELSE /\ pc' = [pc EXCEPT ![t] = "drain"]
         /\ error_count' = [error_count EXCEPT ![t] = ec]
         /\ UNCHANGED <<permits, ret, dirdone, lpath>>

\* files.next_entry() yields None: break
next_entry_none(t) ==
  /\ opts.mode = "upload"
  /\ Polling(t)
  /\ pc[t] = "enumerate"
  /\ enumerate_end(t, error_count[t])
  /\ UNCHANGED <<svars, gvars, opts, mainv, cancellation, ntasks, parent, temps, hist>>

\* files.next_entry() fails: return 1 unless continue_on_error, else count it and break
next_entry_err(t) ==
  /\ opts.mode = "upload"
  /\ Polling(t)
  /\ pc[t] = "enumerate"
  /\ IF ~opts.continue_on_error
       THEN TaskReturn(t, 1)
       ELSE enumerate_end(t, error_count[t] + 1)
  /\ hist' = [hist EXCEPT !.expFail = @ + 1]
  /\ UNCHANGED <<svars, gvars, opts, mainv, cancellation, ntasks, parent, temps>>

(***************************************************************************)
(* download_recursive_one (src/transfer.rs) over Client::get_recursive_    *)
(* stream, Client::get and RecursiveListStream (src/s3.rs).                *)
(***************************************************************************)

\* Client::get fails before a PartialFile exists: the get_object request fails with
\* an error other than NoSuchKey, local_path has no filename, or PartialFile::new
\* cannot create the temp file; download_recursive_one counts 1
get_err(t) ==
  /\ opts.mode = "download"
  /\ Polling(t)
  /\ pc[t] = "get"
  /\ TaskReturn(t, 1)
  /\ hist' = [hist EXCEPT !.leafFail = @ + 1]
  /\ UNCHANGED <<svars, gvars, opts, mainv, cancellation, ntasks, parent, temps>>

\* get_recursive_stream: `Err(Error::NoSuchKey(uri)) if recursive` turns into a listing
recursive_fallback_always(recursive) == TRUE
recursive_fallback(recursive) == recursive

\* Client::get returns NoSuchKey (an empty key, or no object at the key):
\* get_recursive_stream turns it into a listing when recursive, else it is the error;
\* the permit is dropped when get_recursive_stream returns
get_no_such_key(t) ==
  /\ opts.mode = "download"
  /\ Polling(t)
  /\ pc[t] = "get"
  /\ IF recursive_fallback(opts.recursive)
       THEN /\ pc' = [pc EXCEPT ![t] = "list"]
            /\ permits' = drop_token(permits)
            /\ hist' = [hist EXCEPT !.noSuchKey = TRUE]
            /\ UNCHANGED <<ret, locals>>
       ELSE /\ TaskReturn(t, 1)
            /\ hist' = [hist EXCEPT !.leafFail = @ + 1, !.noSuchKey = TRUE]
  /\ UNCHANGED <<svars, gvars, opts, mainv, cancellation, ntasks, parent, temps>>

\* the response arrives, Target::local_path gives p and PartialFile::new creates
\* p + ".sup3.partial"
get_open(t, p) ==
  /\ opts.mode = "download"
  /\ Polling(t)
  /\ pc[t] = "get"
  /\ pc' = [pc EXCEPT ![t] = "write"]
  /\ lpath' = [lpath EXCEPT ![t] = p]
  /\ temps' = temps \cup {p}
  /\ UNCHANGED <<svars, gvars, opts, mainv, cancellation, permits, ntasks, parent, error_count,
                 dirdone, ret, hist>>

\* what PartialFile::finished leaves of the temp files: the rename moves the temp
\* file of p to p
finished_copy(p) == temps
finished_rename(p) == temps \ {p}

\* get_write_loop completes and PartialFile::finished succeeds: flush, then rename
\* (which needs the temp file to be there)
write_finished(t) ==
  /\ opts.mode = "download"
  /\ Polling(t)
  /\ pc[t] = "write"
  /\ lpath[t] \in temps
  /\ temps' = finished_rename(lpath[t])
  /\ TaskReturn(t, 0)
  /\ UNCHANGED <<svars, gvars, opts, mainv, cancellation, ntasks, parent, hist>>

\* get_write_loop fails and cancelled() runs, or finished() fails at flush or rename
\* and Drop runs cancel(): the temp file is removed unless that fails too
write_failed(t) ==
  /\ opts.mode = "download"
  /\ Polling(t)
  /\ pc[t] = "write"
  /\ \E removed \in BOOLEAN : temps' = IF removed THEN temps \ {lpath[t]} ELSE temps
  /\ TaskReturn(t, 1)
  /\ hist' = [hist EXCEPT !.leafFail = @ + 1]
  /\ UNCHANGED <<svars, gvars, opts, mainv, cancellation, ntasks, parent>>

\* the listing request of the page fails: error_count += 1, break
list_err(t) ==
  /\ opts.mode = "download"
  /\ Polling(t)
  /\ pc[t] = "list"
  /\ TaskReturn(t, error_count[t] + 1)
  /\ hist' = [hist EXCEPT !.expFail = @ + 1]
  /\ UNCHANGED <<svars, gvars, opts, mainv, cancellation, ntasks, parent, temps>>

\* the listing holds no key: get_recursive_list_page returns NoSuchKey, counted the
\* same way
list_empty(t) ==
  /\ opts.mode = "download"
  /\ Polling(t)
  /\ pc[t] = "list"
  /\ TaskReturn(t, error_count[t] + 1)
  /\ hist' = [hist EXCEPT !.leafFail = @ + 1]
  /\ UNCHANGED <<svars, gvars, opts, mainv, cancellation, ntasks, parent, temps>>

\* the listing returns a page of k keys
list_page(t, k) ==
  /\ opts.mode = "download"
  /\ Polling(t)
  /\ pc[t] = "list"
  /\ ntasks + k <= MaxTasks
  /\ ntasks' = ntasks + k
  /\ pc' = [x \in Tasks |-> IF x = t THEN "page"
                            ELSE IF x > ntasks /\ x <= ntasks + k THEN "listed" ELSE pc[x]]
  /\ parent' = [x \in Tasks |-> IF x > ntasks /\ x <= ntasks + k THEN t ELSE parent[x]]
  /\ UNCHANGED <<svars, gvars, opts, mainv, cancellation, permits, locals, ret, temps, hist>>

\* the keys of the page not yet turned into a future
Listed(t) == {c \in Tasks : pc[c] = "listed" /\ parent[c] = t}

\* a Directory entry precedes the next key and tokio::fs::create_dir succeeds
page_dir_ok(t) ==
  /\ opts.mode = "download"
  /\ Polling(t)
  /\ pc[t] = "page"
  /\ Listed(t) # {}
  /\ ~dirdone[t]
  /\ dirdone' = [dirdone EXCEPT ![t] = TRUE]
  /\ UNCHANGED <<svars, gvars, opts, mainv, cancellation, permits, ntasks, pc, parent, error_count,
                 lpath, ret, temps, hist>>

\* `.or_else(|err| if err.kind() == AlreadyExists { Ok(()) } else { Err(err) })`:
\* whether create_result is an Err
or_else_every_kind(kind) == TRUE
or_else(kind) == kind # "AlreadyExists"

\* create_dir fails: AlreadyExists is turned into Ok; for another reason return
\* error_count + 1 unless continue_on_error, else go on with the page
page_dir_err(t) ==
  /\ opts.mode = "download"
  /\ Polling(t)
  /\ pc[t] = "page"
  /\ Listed(t) # {}
  /\ ~dirdone[t]
  /\ \E kind \in {"AlreadyExists", "PermissionDenied"} :
       LET h == [hist EXCEPT !.dirExisted = @ \/ kind = "AlreadyExists"] IN
       IF or_else(kind) /\ ~opts.continue_on_error
         THEN /\ TaskReturn(t, error_count[t] + 1)
              /\ hist' = [h EXCEPT !.expFail = @ + 1]
         ELSE /\ dirdone' = [dirdone EXCEPT ![t] = TRUE]
              /\ hist' = IF or_else(kind) THEN [h EXCEPT !.dirSkipped = @ + 1] ELSE h
              /\ UNCHANGED <<pc, permits, ret, error_count, lpath>>
  /\ UNCHANGED <<svars, gvars, opts, mainv, cancellation, ntasks, parent, temps>>

\* a File entry: push the child future; after the last entry of the page, await the
\* children
page_file(t) ==
  /\ opts.mode = "download"
  /\ Polling(t)
  /\ pc[t] = "page"
  /\ Listed(t) # {}
  /\ LET c == CHOOSE x \in Listed(t) : \A y \in Listed(t) : x <= y IN
     pc' = [x \in Tasks |-> IF x = c THEN "pending"
                            ELSE IF x = t /\ Listed(t) = {c} THEN "drain" ELSE pc[x]]
  /\ dirdone' = [dirdone EXCEPT ![t] = FALSE]
  /\ UNCHANGED <<svars, gvars, opts, mainv, cancellation, permits, ntasks, parent, error_count,
                 lpath, ret, temps, hist>>

(***************************************************************************)
(* Aggregation: futures.next() hands a finished child's count to its owner.*)
(***************************************************************************)

\* error_count += res
accumulate_last(count, res) == res
accumulate(count, res) == count + res

\* `while let Some(res) = futures.next().await` of either recursive function, for the
\* child that has just returned: add, return early on a failure unless
\* continue_on_error, return when no child is left
child_return(p) ==
  /\ ret # NoRet
  /\ parent[ret.t] = p
  /\ LET ec == accumulate(error_count[p], ret.count) IN
     IF (ec > 0 /\ ~opts.continue_on_error) \/ LiveChildren(p) = {}
       THEN TaskReturn(p, ec) /\ DropPartialFiles(LiveDesc(p))
       ELSE /\ error_count' = [error_count EXCEPT ![p] = ec]
            /\ ret' = NoRet
            /\ UNCHANGED <<pc, permits, temps, dirdone, lpath>>
  /\ UNCHANGED <<svars, gvars, opts, mainv, cancellation, ntasks, parent, hist>>

\* upload()/download() return r: every future still in `futures` is dropped
main_return(r) ==
  /\ mainpc' = "returned"
  /\ result' = r
  /\ pc' = [x \in Tasks |-> IF x \in AllLive THEN DroppedPc(pc[x]) ELSE pc[x]]
  /\ permits' = permits + Cardinality({x \in AllLive : pc[x] \in Holding})
  /\ DropPartialFiles(AllLive)
  /\ DropLocals(AllLive)

\* select!: futures.next() is ready with Some(count)
select_some ==
  /\ mainpc = "select"
  /\ ret # NoRet
  /\ parent[ret.t] = 0
  /\ LET ec == accumulate(main_error_count, ret.count) IN
     /\ main_error_count' = ec
     /\ ret' = NoRet
     /\ IF ec > 0 /\ ~opts.continue_on_error
          THEN main_return(from_error_count(ec))
          ELSE UNCHANGED <<mainpc, result, pc, permits, temps, locals>>
  /\ UNCHANGED <<svars, gvars, opts, pushed, cancellation, ntasks, parent, hist>>

\* select!: futures.next() is ready with None
select_none ==
  /\ mainpc = "select"
  /\ ret = NoRet
  /\ AllLive = {}
  /\ main_return(from_error_count(main_error_count))
  /\ UNCHANGED <<svars, gvars, opts, pushed, main_error_count, cancellation, ntasks, parent, ret, hist>>

\* select!: cancellation.cancelled() is ready
select_cancelled ==
  /\ mainpc = "select"
  /\ ret = NoRet
  /\ cancellation
  /\ main_return("Cancelled")
  /\ UNCHANGED <<svars, gvars, opts, pushed, main_error_count, cancellation, ntasks, parent, ret, hist>>

(***************************************************************************)
(* One Client::get (src/s3.rs) writing through a PartialFile                *)
(* (src/s3/partial_file.rs), with the files it touches.                    *)
(***************************************************************************)

Names == {"final", "partial"}
ChunkVals == {1, 2}
OldData == <<0>>
Absent == [exists |-> FALSE, data |-> <<>>]
File(d) == [exists |-> TRUE, data |-> d]
Objects == UNION {[1..n -> ChunkVals] : n \in 0..MaxChunks}

\* path_final of the PartialFile: Target::local_path
path_final == "final"

\* PartialFile::new: the temporary path is the final path plus ".sup3.partial"
path_partial_same(p) == p
path_partial(p) == "partial"

Tmp == path_partial(path_final)

\* the first k items of the buffer reach the temp file
written_through(fs, buf, k) ==
  [fs EXCEPT ![Tmp] = File(@.data \o SubSeq(buf, 1, k))]

\* self.writer().flush() of finished(): everything buffered reaches the file
flush_none(fs, buf) == fs
flush_all(fs, buf) == written_through(fs, buf, Len(buf))

\* tokio::fs::rename(&self.path_partial, &self.path_final)
rename_partial(fs) == [n \in Names |-> IF n = path_final THEN fs[Tmp]
                                       ELSE IF n = Tmp THEN Absent ELSE fs[n]]

\* PartialFile::cancel with outcome o: the writer is taken (its buffer is lost), the
\* file is flushed, then the temp file is removed; a failed flush returns before the
\* removal
cancel(fs, o) == IF o = "ok" THEN [fs EXCEPT ![Tmp] = Absent] ELSE fs

CancelOutcomes == {"ok", "flush_err", "remove_err"}

TransferIdle ==
  /\ opts = [mode |-> "download", concurrency |-> 1, continue_on_error |-> FALSE,
             recursive |-> FALSE, nroots |-> 1]
  /\ mainpc = "returned" /\ pushed = 0 /\ main_error_count = 0 /\ result = "none"
  /\ cancellation = FALSE /\ permits = 0 /\ ntasks = 0
  /\ pc = [t \in Tasks |-> "absent"]
  /\ parent = [t \in Tasks |-> 0]
  /\ error_count = [t \in Tasks |-> 0]
  /\ dirdone = [t \in Tasks |-> FALSE]
  /\ lpath = [t \in Tasks |-> 0]
  /\ ret = NoRet
  /\ temps = {}
  /\ hist = [leafFail |-> 0, expFail |-> 0, dirSkipped |-> 0, cancelOutstanding |-> FALSE,
             noSuchKey |-> FALSE, dirExisted |-> FALSE]

InitGet ==
  /\ TransferIdle
  /\ StrIdle
  /\ g_pc = "connect"
  /\ g_obj \in Objects
  /\ g_sent = 0
  /\ g_written = <<>>
  /\ g_buf = <<>>
  /\ g_writer = FALSE
  /\ g_fs \in [Names -> {Absent, File(OldData)}]
  /\ g_fs0 = g_fs
  /\ g_res = "none"
  /\ g_how = "none"
  /\ g_cancel = "none"

\* Client::get returns r
get_return(r) == g_pc' = "returned" /\ g_res' = r

\* get_object().send() fails (NoSuchKey included), or local_path finds no filename
get_send_err ==
  /\ g_pc = "connect"
  /\ get_return("err")
  /\ UNCHANGED <<svars, tvars, g_obj, g_sent, g_written, g_buf, g_writer, g_fs, g_fs0, g_how,
                 g_cancel>>

get_send_ok ==
  /\ g_pc = "connect"
  /\ g_pc' = "create"
  /\ UNCHANGED <<svars, tvars, g_obj, g_sent, g_written, g_buf, g_writer, g_fs, g_fs0, g_res,
                 g_how, g_cancel>>

\* PartialFile::new: File::create makes or truncates the temp file
PartialFile_new ==
  /\ g_pc = "create"
  /\ g_fs' = [g_fs EXCEPT ![Tmp] = File(<<>>)]
  /\ g_writer' = TRUE
  /\ g_pc' = "loop"
  /\ UNCHANGED <<svars, tvars, g_obj, g_sent, g_written, g_buf, g_fs0, g_res, g_how, g_cancel>>

\* File::create fails: get returns the error, no PartialFile exists
PartialFile_new_err ==
  /\ g_pc = "create"
  /\ get_return("err")
  /\ UNCHANGED <<svars, tvars, g_obj, g_sent, g_written, g_buf, g_writer, g_fs, g_fs0, g_how,
                 g_cancel>>

\* get_write_loop: the body yields a chunk and write_all accepts it; the writer
\* passes on any part of what it holds
write_loop_some ==
  /\ g_pc = "loop"
  /\ g_sent < Len(g_obj)
  /\ g_sent' = g_sent + 1
  /\ g_written' = Append(g_written, g_obj[g_sent + 1])
  /\ LET b == Append(g_buf, g_obj[g_sent + 1]) IN
     \E k \in 0..Len(b) :
        /\ g_fs' = written_through(g_fs, b, k)
        /\ g_buf' = SubSeq(b, k + 1, Len(b))
  /\ UNCHANGED <<svars, tvars, g_pc, g_obj, g_writer, g_fs0, g_res, g_how, g_cancel>>

\* get_write_loop: write_all fails, after any part of the data reached the file, or
\* the body fails: get calls local_file.cancelled()
write_loop_err ==
  /\ g_pc = "loop"
  /\ \E k \in 0..Len(g_buf) :
        /\ g_fs' = written_through(g_fs, g_buf, k)
        /\ g_buf' = SubSeq(g_buf, k + 1, Len(g_buf))
  /\ g_pc' = "cancelled"
  /\ UNCHANGED <<svars, tvars, g_obj, g_sent, g_written, g_writer, g_fs0, g_res, g_how,
                 g_cancel>>

\* get_write_loop: the body is exhausted, get calls local_file.finished()
write_loop_none ==
  /\ g_pc = "loop"
  /\ g_sent = Len(g_obj)
  /\ g_pc' = "finished"
  /\ UNCHANGED <<svars, tvars, g_obj, g_sent, g_written, g_buf, g_writer, g_fs, g_fs0, g_res,
                 g_how, g_cancel>>

\* finished(): the flush succeeds
finished_flush ==
  /\ g_pc = "finished"
  /\ g_fs' = flush_all(g_fs, g_buf)
  /\ g_buf' = <<>>
  /\ g_pc' = "rename"
  /\ UNCHANGED <<svars, tvars, g_obj, g_sent, g_written, g_writer, g_fs0, g_res, g_how,
                 g_cancel>>

\* self.writer.take(): whether a writer is left in the PartialFile
take_kept(writer) == writer
take(writer) == FALSE

\* finished(): the rename succeeds, the writer is taken, Ok(path_final); `self` is
\* dropped on return, and Drop runs cancel() only if it finds a writer (the temp file
\* being renamed away, its removal would fail)
finished_rename_ok ==
  /\ g_pc = "rename"
  /\ g_fs[Tmp].exists
  /\ g_fs' = rename_partial(g_fs)
  /\ g_writer' = FALSE
  /\ g_cancel' = IF take(g_writer) THEN "remove_err" ELSE g_cancel
  /\ g_how' = "finished"
  /\ get_return("ok")
  /\ UNCHANGED <<svars, tvars, g_obj, g_sent, g_written, g_buf, g_fs0>>

\* finished(): the flush or the rename fails; `self` is dropped with its writer in
\* place, so Drop runs cancel() and only logs its error
finished_err(o) ==
  /\ g_pc \in {"finished", "rename"}
  /\ g_fs' = cancel(g_fs, o)
  /\ g_buf' = <<>>
  /\ g_writer' = FALSE
  /\ g_cancel' = o
  /\ g_how' = "finished_err"
  /\ get_return("err")
  /\ UNCHANGED <<svars, tvars, g_obj, g_sent, g_written, g_fs0>>

\* cancelled(): cancel() with outcome o; get returns an error either way
cancelled(o) ==
  /\ g_pc = "cancelled"
  /\ g_fs' = cancel(g_fs, o)
  /\ g_buf' = <<>>
  /\ g_writer' = FALSE
  /\ g_cancel' = o
  /\ g_how' = "cancelled"
  /\ get_return("err")
  /\ UNCHANGED <<svars, tvars, g_obj, g_sent, g_written, g_fs0>>

\* the future is dropped while the write loop awaits (cancellation, or its owner
\* returning early): Drop for PartialFile finds the writer and runs cancel()
drop_in_loop(o) ==
  /\ g_pc = "loop"
  /\ g_fs' = cancel(g_fs, o)
  /\ g_buf' = <<>>
  /\ g_writer' = FALSE
  /\ g_cancel' = o
  /\ g_how' = "drop"
  /\ g_pc' = "dropped"
  /\ UNCHANGED <<svars, tvars, g_obj, g_sent, g_written, g_fs0, g_res>>

\* the future is dropped before a PartialFile exists; a File::create already handed
\* to the blocking pool may still make the temp file
drop_before_new(created) ==
  /\ g_pc \in {"connect", "create"}
  /\ g_fs' = IF created /\ g_pc = "create" THEN [g_fs EXCEPT ![Tmp] = File(<<>>)] ELSE g_fs
  /\ g_how' = "drop_before_new"
  /\ g_pc' = "dropped"
  /\ UNCHANGED <<svars, tvars, g_obj, g_sent, g_written, g_buf, g_writer, g_fs0, g_res, g_cancel>>

\* the future is dropped inside finished(): Drop runs cancel(); a rename already
\* handed to the blocking pool may still take place
drop_in_finished(renamed, o) ==
  /\ g_pc \in {"finished", "rename"}
  /\ g_fs' = IF renamed /\ g_pc = "rename" /\ g_fs[Tmp].exists
               THEN rename_partial(g_fs) ELSE cancel(g_fs, o)
  /\ g_buf' = <<>>
  /\ g_writer' = FALSE
  /\ g_cancel' = IF renamed /\ g_pc = "rename" /\ g_fs[Tmp].exists THEN "remove_err" ELSE o
  /\ g_how' = "drop_in_finished"
  /\ g_pc' = "dropped"
  /\ UNCHANGED <<svars, tvars, g_obj, g_sent, g_written, g_fs0, g_res>>

\* the future is dropped inside cancelled(): the writer is already taken, so Drop does
\* nothing; a removal already handed to the blocking pool may still take place
drop_in_cancelled(o) ==
  /\ g_pc = "cancelled"
  /\ g_fs' = cancel(g_fs, o)
  /\ g_buf' = <<>>
  /\ g_writer' = FALSE
  /\ g_cancel' = o
  /\ g_how' = "drop_in_cancelled"
  /\ g_pc' = "dropped"
  /\ UNCHANGED <<svars, tvars, g_obj, g_sent, g_written, g_fs0, g_res>>

NextGet ==
  \/ get_send_err
  \/ get_send_ok
  \/ PartialFile_new
  \/ PartialFile_new_err
  \/ write_loop_some
  \/ write_loop_err
  \/ write_loop_none
  \/ finished_flush
  \/ finished_rename_ok
  \/ \E o \in CancelOutcomes :
       \/ finished_err(o)
       \/ cancelled(o)
       \/ drop_in_loop(o)
       \/ drop_in_cancelled(o)
       \/ \E renamed \in BOOLEAN : drop_in_finished(renamed, o)
  \/ \E created \in BOOLEAN : drop_before_new(created)

SpecGet == InitGet /\ [][NextGet]_vars

(***************************************************************************)
(* Keys, paths and patterns are strings: sequences of characters.  The     *)
(* functions of src/s3/uri.rs, src/s3/glob.rs and Target of src/s3.rs on   *)
(* them, each applied once to arguments drawn from bounded sets.           *)
(***************************************************************************)

Str(alphabet, n) == UNION {[1..k -> alphabet] : k \in 0..n}

ends_with(s, c) == Len(s) > 0 /\ s[Len(s)] = c
starts_with(s, c) == Len(s) > 0 /\ s[1] = c

\* str::strip_suffix('/').unwrap_or(s)
strip_suffix(s) == IF ends_with(s, "/") THEN SubSeq(s, 1, Len(s) - 1) ELSE s

\* positions of '/' in s
Slashes(s) == {i \in 1..Len(s) : s[i] = "/"}

Max(S) == CHOOSE m \in S : \A x \in S : x <= m

\* str::trim_end_matches(|c| c != '/'): s up to and with its last '/'
trim_end_matches(s) == IF Slashes(s) = {} THEN <<>> ELSE SubSeq(s, 1, Max(Slashes(s)))

\* the two halves of str::rsplit_once('/'), when s has a '/'
rsplit_above(s) == SubSeq(s, 1, Max(Slashes(s)) - 1)
rsplit_below(s) == SubSeq(s, Max(Slashes(s)) + 1, Len(s))

\* uri::filename: <<name>> for Some(name), <<>> for None
filename(key) ==
  IF Slashes(key) = {} THEN (IF key # <<>> THEN <<key>> ELSE <<>>)
  ELSE IF rsplit_below(key) = <<>> THEN <<>> ELSE <<rsplit_below(key)>>

\* Key::is_explicitly_directory
ends_with_slash(key) == ends_with(key, "/")
is_explicitly_directory(key) == ends_with(key, "/") \/ key = <<>>

\* Key::to_explicit_directory
to_explicit_directory(key) == IF ~is_explicitly_directory(key) THEN Append(key, "/") ELSE key

\* Key::as_directory_component: rsplit_once('/') of the key without one trailing '/',
\* and "" when that holds no '/'
as_directory_component(key) ==
  LET without_slash == strip_suffix(key)
  IN IF Slashes(without_slash) = {} THEN <<>> ELSE rsplit_below(without_slash)

\* Uri::child_directory: Key::push is push_str, then to_explicit_directory
child_directory(key, path_component) == to_explicit_directory(key \o path_component)

\* Uri::from_str on the path of the parsed url (empty, or beginning with '/'): one
\* leading '/' is stripped
from_str(path) == IF path = <<>> THEN <<>> ELSE Tail(path)

\* glob_has_resursive_wildcard: the first "**" is looked up (index counts from 0) and
\* the one or two characters before it are inspected
StarStars(s) == {i \in 1..Len(s) - 1 : s[i] = "*" /\ s[i + 1] = "*"}

Min(S) == CHOOSE m \in S : \A x \in S : m <= x

glob_has_resursive_wildcard(glob_str) ==
  IF StarStars(glob_str) = {} THEN FALSE
  ELSE LET index == Min(StarStars(glob_str)) - 1 IN
       IF index = 0 THEN TRUE
       ELSE IF index = 1 THEN glob_str[1] # "\\"
       ELSE glob_str[index - 1] = "\\" \/ glob_str[index] # "\\"

\* Target::new_create on the metadata of `to`, the number of uris, the recursive
\* argument and the outcome of create_dir
new_create(meta, nuris, recursive, mkdir_ok) ==
  IF meta = "dir" THEN [kind |-> "Directory", created |-> FALSE]
  ELSE IF meta = "file" /\ nuris > 1 THEN [kind |-> "Err", created |-> FALSE]
  ELSE IF meta = "file" THEN [kind |-> "File", created |-> FALSE]
  ELSE IF meta = "notfound" THEN
       IF nuris > 1 \/ recursive
         THEN (IF mkdir_ok THEN [kind |-> "Directory", created |-> TRUE]
                           ELSE [kind |-> "Err", created |-> FALSE])
         ELSE [kind |-> "File", created |-> FALSE]
  ELSE [kind |-> "Err", created |-> FALSE]

\* download(): the Target is made with `true` for the recursive argument
download_target(meta, nuris, recursive, mkdir_ok) == new_create(meta, nuris, TRUE, mkdir_ok)

\* the key Client::put writes for a file `name` sent to the Uri key `to`
put_key(to, name) == IF filename(to) = <<>> THEN to \o name ELSE to

\* upload_recursive_one on directory D = dirs[1] holding dirs[2], ...: the Uri key
\* its files are sent to
RECURSIVE to_child(_, _)
to_child(to, dirs) ==
  IF dirs = <<>> THEN to ELSE to_child(child_directory(to, Head(dirs)), Tail(dirs))

\* str::strip_prefix: is_some(), and the rest of s when it is
has_prefix(s, p) == Len(p) <= Len(s) /\ SubSeq(s, 1, Len(p)) = p
after_prefix(s, p) == SubSeq(s, Len(p) + 1, Len(s))

\* wax::Glob::is_match for the patterns "**" (any run of characters), "*" (any run of
\* characters other than '/') and a literal
is_match(glob, name) ==
  \/ glob = <<"*", "*">>
  \/ glob = <<"*">> /\ Slashes(name) = {}
  \/ glob = name

\* Glob::matches: the key without the prefix, one leading and one trailing '/'; the
\* expect() panics on a key that does not begin with the prefix
Glob_matches(glob, key) ==
  IF ~has_prefix(key, glob.prefix) THEN "panic"
  ELSE LET without_prefix == after_prefix(key, glob.prefix)
           without_prefix_slash ==
             IF starts_with(without_prefix, "/") THEN Tail(without_prefix) ELSE without_prefix
       IN IF is_match(glob.glob, strip_suffix(without_prefix_slash)) THEN "true" ELSE "false"

\* key_matches_requested with a glob that never says no
key_matches_requested_any(requested, key, args, glob) == "true"

\* key_matches_requested; glob is <<>> for None and <<g>> for Some(g)
key_matches_requested(requested, key, args, glob) ==
  IF args.substring THEN "true"
  ELSE IF requested = key THEN "true"
  ELSE IF glob # <<>> THEN Glob_matches(glob[1], key)
  ELSE IF is_explicitly_directory(requested)
    THEN (IF has_prefix(key, trim_end_matches(requested)) THEN "true" ELSE "false")
  ELSE IF args.recurse /\ has_prefix(key, requested)
    THEN (IF starts_with(after_prefix(key, requested), "/") THEN "true" ELSE "false")
  ELSE IF ends_with(key, "/") /\ requested = strip_suffix(key) THEN "true"
  ELSE "false"

\* cli::longest_file_display_prefix.  A String is UTF-8: chars() walks characters,
\* truncate() and rfind() count bytes.  "e" stands for a character of two bytes (such
\* as e-acute), every other character has one.  String::truncate(new_len) does nothing
\* when new_len is above the length and panics when new_len is not on a character
\* boundary: the result <<"panic">>.
longest_file_display_prefix(strings) ==
  LET Width(c) == IF c = "e" THEN 2 ELSE 1
      RECURSIVE len(_)
      len(str) == IF str = <<>> THEN 0 ELSE Width(Head(str)) + len(Tail(str))
      boundary(str, n) == {k \in 0..Len(str) : len(SubSeq(str, 1, k)) = n}
      truncate(str, new_len) ==
        IF new_len > len(str) THEN str
        ELSE IF boundary(str, new_len) = {} THEN <<"panic">>
        ELSE SubSeq(str, 1, CHOOSE k \in boundary(str, new_len) : TRUE)
      count_same(item, longest) ==
        Max({k \in 0..Min({Len(item), Len(longest)}) :
               \A i \in 1..k : item[i] = longest[i]})
      RECURSIVE loop(_, _)
      loop(longest, rest) ==
        IF rest = <<>> \/ longest = <<"panic">> THEN longest
        ELSE loop(truncate(longest, count_same(Head(rest), longest)), Tail(rest))
      common == loop(Head(strings), Tail(strings))
  IN IF strings = <<>> THEN <<>>
     ELSE IF common = <<"panic">> THEN <<"panic">>
     ELSE IF Slashes(common) = {} THEN common
     ELSE SubSeq(common, 1, Max(Slashes(common)))

KeyChars == {"a", "/"}
PathChars == {"a", "/", "e"}
GlobChars == {"a", "*", "\\"}
Components == {<<"a">>, <<"b">>}
Metadata == {"dir", "file", "notfound", "denied"}

Calls ==
  {[fn |-> "glob", s |-> s] : s \in Str(GlobChars, MaxGlobLen)}
  \cup {[fn |-> "key", s |-> s] : s \in Str(KeyChars, MaxKeyLen)}
  \cup [fn : {"target"}, meta : Metadata, nuris : 1..MaxUris, recursive : BOOLEAN,
        mkdir_ok : BOOLEAN]
  \cup {[fn |-> "upload", to |-> to, dirs |-> <<d>> \o rel, name |-> n] :
          to \in Str(KeyChars, MaxDepth), d \in Components,
          rel \in Str(Components, MaxDepth - 1), n \in Components}
  \cup {[fn |-> "uri", path |-> path, component |-> c] :
          path \in {<<>>} \cup {<<"/">> \o k : k \in Str(KeyChars, MaxKeyLen - 1)},
          c \in Components}
  \cup {[fn |-> "component", key |-> k] : k \in Str(KeyChars, MaxKeyLen)}
  \cup {[fn |-> "matches", requested |-> r, key |-> k, args |-> a, glob |-> g] :
          r \in Str(KeyChars, MaxDepth), k \in Str(KeyChars, MaxRelLen),
          a \in [substring : BOOLEAN, recurse : BOOLEAN],
          g \in {<<>>} \cup {<<[prefix |-> q, glob |-> w]>> :
                               q \in {<<>>, <<"a", "/">>}, w \in {<<"*">>, <<"*", "*">>}}}
  \cup {[fn |-> "prefix", strings |-> l] :
          l \in UNION {[1..n -> Str(PathChars, MaxPathLen)] : n \in 0..MaxStrings}}

InitFn ==
  /\ TransferIdle
  /\ LsIdle
  /\ GetIdle
  /\ PairIdle
  /\ SeenIdle
  /\ ListIdle
  /\ f_call \in Calls
  /\ f_done = FALSE
  /\ f_out = FALSE

Return(out) ==
  /\ ~f_done
  /\ f_done' = TRUE
  /\ f_out' = out
  /\ UNCHANGED <<tvars, gvars, lsvars, sdvars, lvars, pvars, f_call>>

call_glob ==
  /\ f_call.fn = "glob"
  /\ Return(glob_has_resursive_wildcard(f_call.s))

call_key ==
  /\ f_call.fn = "key"
  /\ Return(to_explicit_directory(f_call.s))

call_target ==
  /\ f_call.fn = "target"
  /\ Return(download_target(f_call.meta, f_call.nuris, f_call.recursive, f_call.mkdir_ok))

call_upload ==
  /\ f_call.fn = "upload"
  /\ Return(put_key(to_child(f_call.to, f_call.dirs), f_call.name))

\* a textual address is parsed, and child_directory makes the Uri of a directory below
call_uri ==
  /\ f_call.fn = "uri"
  /\ Return([key |-> from_str(f_call.path),
             child |-> child_directory(from_str(f_call.path), f_call.component)])

call_component ==
  /\ f_call.fn = "component"
  /\ Return(as_directory_component(f_call.key))

call_prefix ==
  /\ f_call.fn = "prefix"
  /\ Return(longest_file_display_prefix(f_call.strings))

call_matches ==
  /\ f_call.fn = "matches"
  /\ Return(key_matches_requested(f_call.requested, f_call.key, f_call.args, f_call.glob))

NextFn ==
  \/ call_prefix
  \/ call_matches
  \/ call_glob
  \/ call_key
  \/ call_target
  \/ call_upload
  \/ call_uri
  \/ call_component

SpecFn == InitFn /\ [][NextFn]_vars

(***************************************************************************)
(* SeenDirectories (src/s3/seen_directories.rs): one instance and the      *)
(* add_key calls made on it.                                               *)
(***************************************************************************)

\* dirname: the key up to its last '/', without that '/'
dirname(key) == strip_suffix(trim_end_matches(key))

\* up_directory: one level up, "" at the top
up_directory(key) ==
  IF Slashes(strip_suffix(key)) = {} THEN <<>> ELSE rsplit_above(strip_suffix(key))

\* missing_directories: the loop from search_key on, `missing` collected so far; the
\* push after the loop needs a search_key longer than prefix_len, which neither exit
\* of the loop leaves (the loop condition failed, or search_key is empty)
RECURSIVE missing_directories(_, _, _, _)
missing_directories(seen, prefix_len, search_key, missing) ==
  IF Len(search_key) > prefix_len
    THEN IF search_key \in seen THEN missing
         ELSE IF up_directory(search_key) = <<>> THEN Append(missing, search_key)
         ELSE missing_directories(seen, prefix_len, up_directory(search_key),
                                  Append(missing, search_key))
    ELSE missing

\* add_key: what is recorded as seen
insert_none(seen, missing) == seen
insert(seen, missing) == seen \cup {missing[i] : i \in DOMAIN missing}

\* add_key: missing.reverse()
unreversed(missing) == missing
reverse(missing) == [i \in DOMAIN missing |-> missing[Len(missing) + 1 - i]]

\* SeenDirectories::new(prefix).prefix_len
new_prefix_len_none(prefix) == 0
new_prefix_len(prefix) == IF ends_with(prefix, "/") THEN Len(prefix) - 1 ELSE Len(prefix)

InitSeen ==
  /\ TransferIdle
  /\ LsIdle
  /\ GetIdle
  /\ PairIdle
  /\ FnIdle
  /\ ListIdle
  /\ sd_prefix \in Str(KeyChars, MaxDepth)
  /\ sd_prefix_len = new_prefix_len(sd_prefix)
  /\ sd_seen = {}
  /\ sd_log = <<>>
  /\ sd_keys = <<>>

add_key(key) ==
  /\ Len(sd_log) < MaxCalls
  /\ LET missing == missing_directories(sd_seen, sd_prefix_len, dirname(key), <<>>) IN
       /\ sd_seen' = insert(sd_seen, missing)
       /\ sd_log' = Append(sd_log, reverse(missing))
  /\ sd_keys' = Append(sd_keys, key)
  /\ UNCHANGED <<tvars, gvars, lsvars, fvars, lvars, pvars, sd_prefix, sd_prefix_len>>

NextSeen == \E key \in Str(KeyChars, MaxKeyLen) : add_key(key)

SpecSeen == InitSeen /\ [][NextSeen]_vars

(***************************************************************************)
(* A recursive download of one prefix: RecursiveListStream and             *)
(* get_recursive_list_page (src/s3.rs) feeding the page loop of            *)
(* download_recursive_one (src/transfer.rs), with the local paths that     *)
(* Target::child and Target::local_path give.                              *)
(***************************************************************************)

\* target.path(): the local directory of the download
TargetDir == <<"t">>

\* ls_inner: the ListObjectsV2 answer to a request with continuation token `token`;
\* keys come in binary order ('/' before letters), continuation_token echoes the
\* request, next_continuation_token is set while keys remain
ls_inner(store, token) ==
  LET from == IF token = <<>> THEN 0 ELSE token[1]
      key_before(a, b) ==
        \E i \in 1..(Len(a) + 1) :
           /\ i <= Len(b)
           /\ SubSeq(a, 1, i - 1) = SubSeq(b, 1, i - 1)
           /\ (i > Len(a) \/ (a[i] = "/" /\ b[i] # "/"))
      rank(k) == Cardinality({x \in store : key_before(x, k)})
      n == IF Cardinality(store) - from > PageSize THEN PageSize
           ELSE Cardinality(store) - from
  IN [contents |-> [i \in 1..n |-> CHOOSE k \in store : rank(k) = from + i - 1],
      continuation_token |-> token,
      next_continuation_token |->
         IF Cardinality(store) - from > PageSize THEN <<from + PageSize>> ELSE <<>>]

\* PathBuf::push: an absolute component replaces the path
push(path, component) ==
  IF starts_with(component, "/") THEN component
  ELSE IF path = <<>> \/ ends_with(path, "/") THEN path \o component
  ELSE path \o <<"/">> \o component

\* get_recursive_list_page, the loop over contents: the items of the page and `seen`
\* after it
RECURSIVE page_items_file_first(_, _, _)
page_items_file_first(seen, prefix_len, contents) ==
  IF contents = <<>> THEN [ret |-> <<>>, seen |-> seen]
  ELSE LET key == Head(contents)
           missing == missing_directories(seen, prefix_len, dirname(key), <<>>)
           rest == page_items_file_first(insert(seen, missing), prefix_len, Tail(contents))
           dirs == reverse(missing)
       IN [ret |-> <<[item |-> "File", key |-> key]>>
                     \o [i \in DOMAIN dirs |-> [item |-> "Directory", key |-> dirs[i]]]
                     \o rest.ret,
           seen |-> rest.seen]

RECURSIVE page_items(_, _, _)
page_items(seen, prefix_len, contents) ==
  IF contents = <<>> THEN [ret |-> <<>>, seen |-> seen]
  ELSE LET key == Head(contents)
           missing == missing_directories(seen, prefix_len, dirname(key), <<>>)
           rest == page_items(insert(seen, missing), prefix_len, Tail(contents))
           dirs == reverse(missing)
       IN [ret |-> [i \in DOMAIN dirs |-> [item |-> "Directory", key |-> dirs[i]]]
                     \o <<[item |-> "File", key |-> key]>> \o rest.ret,
           seen |-> rest.seen]

\* get_recursive_list_page: the token handed on is files.continuation_token
get_recursive_list_page_silent(files, seen, prefix_len) ==
  LET p == page_items(seen, prefix_len, files.contents) IN
  [kind |-> IF p.ret = <<>> THEN "none" ELSE "some", page |-> p.ret,
   token |-> files.continuation_token, seen |-> p.seen]

get_recursive_list_page(files, seen, prefix_len) ==
  LET p == page_items(seen, prefix_len, files.contents) IN
  IF p.ret = <<>>
    THEN [kind |-> IF files.continuation_token # <<>> THEN "none" ELSE "err",
          page |-> <<>>, token |-> <<>>, seen |-> p.seen]
    ELSE [kind |-> "some", page |-> p.ret, token |-> files.continuation_token,
          seen |-> p.seen]

\* download_recursive_one, a Directory entry: the path given to create_dir, <<>> when
\* additional_dir is empty and nothing is created
directory_path(uri_key, key) ==
  LET additional_dir == SubSeq(key, Len(uri_key) + 1, Len(key)) IN
  IF Len(additional_dir) > 0 THEN push(TargetDir, additional_dir) ELSE <<>>

\* download_recursive_one, a File entry: the child's Target, then Target::local_path
\* in Client::get; <<>> when the key has no filename
file_path(uri_key, key) ==
  LET additional_path == SubSeq(key, Len(uri_key) + 1, Len(key))
      target == IF Slashes(additional_path) # {}
                  THEN push(TargetDir, rsplit_above(additional_path))
                  ELSE TargetDir
  IN IF filename(key) = <<>> THEN <<>> ELSE push(target, filename(key)[1])

InitList ==
  /\ TransferIdle
  /\ LsIdle
  /\ GetIdle
  /\ PairIdle
  /\ FnIdle
  /\ l_key \in {<<>>, <<"a">>, <<"a", "/">>}
  /\ LET RECURSIVE Nested(_)
         Nested(d) == IF d = 0 THEN <<"a">> ELSE <<"a", "/">> \o Nested(d - 1)
         Rels == (Str(KeyChars, MaxRelLen) \ {<<>>}) \cup {Nested(d) : d \in 0..MaxDepth}
     IN \E n \in 0..MaxObjs : \E rels \in [1..n -> Rels] :
           l_store = {to_explicit_directory(l_key) \o rels[i] : i \in 1..n}
  /\ l_token = <<>>
  /\ l_pc = "stream"
  /\ l_started = {}
  /\ l_dirs = {}
  /\ sd_prefix = to_explicit_directory(l_key)
  /\ sd_prefix_len = new_prefix_len(sd_prefix)
  /\ sd_seen = {}
  /\ sd_log = <<>>
  /\ sd_keys = <<>>

\* one turn of `while let Some(res) = stream.next().await`: the stream asks for a
\* page, and the page loop creates the directories (create_dir succeeding or finding
\* them there) and pushes a child download per File entry
stream_next ==
  /\ l_pc = "stream"
  /\ LET r == get_recursive_list_page(ls_inner(l_store, l_token), sd_seen, sd_prefix_len)
         n == Cardinality(l_dirs) + Cardinality(l_started)
         entries(item) == {i \in DOMAIN r.page : r.page[i].item = item}
     IN /\ sd_seen' = r.seen
        /\ l_token' = IF r.kind = "some" /\ r.token # <<>> THEN r.token ELSE l_token
        /\ l_pc' = IF r.kind = "err" THEN "no_such_key"
                   ELSE IF r.kind = "some" /\ r.token # <<>> THEN "stream" ELSE "done"
        /\ l_dirs' = l_dirs \cup
              {[key |-> r.page[i].key, path |-> directory_path(l_key, r.page[i].key),
                at |-> n + i] : i \in entries("Directory")}
        /\ l_started' = l_started \cup
              {[key |-> r.page[i].key, path |-> file_path(l_key, r.page[i].key),
                at |-> n + i] : i \in entries("File")}
  /\ UNCHANGED <<tvars, gvars, lsvars, fvars, pvars, l_key, l_store, sd_prefix, sd_prefix_len, sd_log, sd_keys>>

\* the ListObjectsV2 request fails: the page is Err, error_count += 1, break
stream_err ==
  /\ l_pc = "stream"
  /\ l_pc' = "err"
  /\ UNCHANGED <<tvars, gvars, lsvars, fvars, sdvars, pvars, l_key, l_store, l_token, l_started, l_dirs>>

NextList == stream_next \/ stream_err

SpecList == InitList /\ [][NextList]_vars

(***************************************************************************)
(* Two Client::get calls (src/s3.rs) of one command running concurrently   *)
(* whose local paths coincide: both PartialFiles (src/s3/partial_file.rs)  *)
(* use the same temporary path, each through its own file handle.          *)
(***************************************************************************)

InitPair ==
  /\ TransferIdle
  /\ LsIdle
  /\ GetIdle
  /\ FnIdle
  /\ SeenIdle
  /\ ListIdle
  /\ p_len \in [1..2 -> 1..MaxChunks]
  /\ p_pc = [i \in 1..2 |-> "create"]
  /\ p_off = [i \in 1..2 |-> 0]
  /\ p_ino = [i \in 1..2 |-> 0]
  /\ p_data = [f \in 1..2 |-> <<>>]
  /\ p_dir = [n \in Names |-> 0]

\* PartialFile::new of get i: File::create opens the temporary path for writing,
\* making the file or truncating the one that is there
pair_new(i) ==
  /\ p_pc[i] = "create"
  /\ LET f == IF p_dir["partial"] # 0 THEN p_dir["partial"]
              ELSE CHOOSE g \in 1..2 : \A j \in 1..2 : p_ino[j] # g
     IN /\ p_ino' = [p_ino EXCEPT ![i] = f]
        /\ p_data' = [p_data EXCEPT ![f] = <<>>]
        /\ p_dir' = [p_dir EXCEPT !["partial"] = f]
  /\ p_pc' = [p_pc EXCEPT ![i] = "loop"]
  /\ UNCHANGED <<tvars, gvars, lsvars, fvars, sdvars, lvars, p_len, p_off>>

\* get_write_loop of get i: a chunk of the body is written at the position of the
\* handle, past the end of the file if the file was truncated meanwhile
pair_write(i) ==
  /\ p_pc[i] = "loop"
  /\ p_off[i] < p_len[i]
  /\ LET old == p_data[p_ino[i]]
         n == IF Len(old) > p_off[i] + 1 THEN Len(old) ELSE p_off[i] + 1
     IN p_data' = [p_data EXCEPT ![p_ino[i]] =
                     [k \in 1..n |-> IF k = p_off[i] + 1 THEN i
                                     ELSE IF k <= Len(old) THEN old[k] ELSE 0]]
  /\ p_off' = [p_off EXCEPT ![i] = @ + 1]
  /\ UNCHANGED <<tvars, gvars, lsvars, fvars, sdvars, lvars, p_len, p_pc, p_ino, p_dir>>

\* the body of get i is exhausted and PartialFile::finished renames the temporary
\* path to the final path; with no file at the temporary path the rename fails and
\* get returns the error
pair_finished(i) ==
  /\ p_pc[i] = "loop"
  /\ p_off[i] = p_len[i]
  /\ IF p_dir["partial"] # 0
       THEN /\ p_dir' = [n \in Names |-> IF n = "final" THEN p_dir["partial"] ELSE 0]
            /\ p_pc' = [p_pc EXCEPT ![i] = "ok"]
       ELSE /\ p_dir' = p_dir
            /\ p_pc' = [p_pc EXCEPT ![i] = "err"]
  /\ UNCHANGED <<tvars, gvars, lsvars, fvars, sdvars, lvars, p_len, p_off, p_ino, p_data>>

\* the write loop of get i fails and PartialFile::cancelled removes whatever file is
\* at the temporary path
pair_cancelled(i) ==
  /\ p_pc[i] = "loop"
  /\ p_dir' = [p_dir EXCEPT !["partial"] = 0]
  /\ p_pc' = [p_pc EXCEPT ![i] = "err"]
  /\ UNCHANGED <<tvars, gvars, lsvars, fvars, sdvars, lvars, p_len, p_off, p_ino, p_data>>

NextPair ==
  \E i \in 1..2 : pair_new(i) \/ pair_write(i) \/ pair_finished(i) \/ pair_cancelled(i)

SpecPair == InitPair /\ [][NextPair]_vars

(***************************************************************************)
(* Client::ls (src/s3.rs): one run on one Uri against a bucket holding     *)
(* l_store, with answers of at most PageSize entries.                      *)
(***************************************************************************)

\* ListObjectsV2 with a prefix and, when `delimiter`, the delimiter '/': the keys under
\* the prefix in binary order, those with a '/' after the prefix rolled up into one
\* common prefix; a page holds PageSize entries, next_continuation_token is set while
\* entries remain
list_objects_v2(store, prefix, delimiter, token) ==
  LET from == IF token = <<>> THEN 0 ELSE token[1]
      key_before(a, b) ==
        \E i \in 1..(Len(a) + 1) :
           /\ i <= Len(b)
           /\ SubSeq(a, 1, i - 1) = SubSeq(b, 1, i - 1)
           /\ (i > Len(a) \/ (a[i] = "/" /\ b[i] # "/"))
      entry(k) ==
        LET rest == after_prefix(k, prefix) IN
        IF delimiter /\ Slashes(rest) # {}
          THEN [dir |-> TRUE, name |-> SubSeq(k, 1, Len(prefix) + Min(Slashes(rest)))]
          ELSE [dir |-> FALSE, name |-> k]
      entries == {entry(k) : k \in {x \in store : has_prefix(x, prefix)}}
      rank(e) == Cardinality({x \in entries : key_before(x.name, e.name)})
      n == IF Cardinality(entries) - from > PageSize THEN PageSize
           ELSE Cardinality(entries) - from
      page == [i \in 1..n |-> CHOOSE e \in entries : rank(e) = from + i - 1]
      names(p) == [i \in DOMAIN p |-> p[i].name]
  IN [contents |-> names(SelectSeq(page, LAMBDA e : ~e.dir)),
      common_prefixes |-> names(SelectSeq(page, LAMBDA e : e.dir)),
      continuation_token |-> token,
      next_continuation_token |->
         IF Cardinality(entries) - from > PageSize THEN <<from + PageSize>> ELSE <<>>]

\* Glob::new: <<>> for None.  wax::Glob::partition splits the pattern before the path
\* component that holds the first wildcard: the literal components are the prefix
\* (without the '/' that ends them), the rest is the glob
Glob_new(key, option) ==
  LET stars == {i \in 1..Len(key) : key[i] = "*"}
      above == {i \in Slashes(key) : i < Min(stars)}
      cut == IF above = {} THEN 0 ELSE Max(above)
      prefix == IF stars = {} THEN strip_suffix(key) ELSE SubSeq(key, 1, cut - 1)
      glob == IF stars = {} THEN <<>> ELSE SubSeq(key, cut + 1, Len(key))
  IN IF option = "Off" THEN <<>>
     ELSE IF Len(key) = 0 /\ option # "On" THEN <<>>
     ELSE IF option = "Auto" /\ (prefix = key \/ prefix = strip_suffix(key)) THEN <<>>
     ELSE <<[prefix |-> IF prefix # <<>> /\ ~ends_with(prefix, "/")
                          THEN Append(prefix, "/") ELSE prefix,
             glob |-> glob,
             has_recursive_wildcard |-> glob_has_resursive_wildcard(key)]>>

\* ls_consume_response with neither only_files, only_directories nor full_path: the
\* names looked at, in order.  Each common prefix goes through print_directory; each
\* key that matches has the unseen directories above it printed through
\* print_directory first.  printable_filename strips directory_prefix (shell_escape
\* leaves letters and '/' as they are)
ls_consume_response(args, response, directory_prefix, seen, prefix_len, glob, page) ==
  LET printable_filename(key) ==
        IF has_prefix(key, directory_prefix) THEN after_prefix(key, directory_prefix) ELSE key
      line(kind, name) ==
        [page |-> page, kind |-> kind, name |-> name, root |-> directory_prefix,
         shown |-> key_matches_requested(directory_prefix, name, args, glob),
         as |-> printable_filename(name)]
      RECURSIVE files(_, _)
      files(contents, s) ==
        IF contents = <<>> THEN [log |-> <<>>, seen |-> s]
        ELSE LET name == Head(contents)
                 dir_path == trim_end_matches(name)
                 missing ==
                   IF /\ line("key", name).shown = "true"
                      /\ (args.recurse \/ glob # <<>>)
                      /\ dir_path # directory_prefix
                     THEN missing_directories(s, prefix_len, dirname(dir_path), <<>>)
                     ELSE <<>>
                 unseen_directory == reverse(missing)
                 rest == files(Tail(contents), insert(s, missing))
             IN [log |-> [i \in DOMAIN unseen_directory |->
                            line("seen", unseen_directory[i])]
                           \o <<line("key", name)>> \o rest.log,
                 seen |-> rest.seen]
  IN [log |-> [i \in DOMAIN response.common_prefixes |->
                 line("prefix", response.common_prefixes[i])]
                \o files(response.contents, seen).log,
      seen |-> files(response.contents, seen).seen]

\* Client::ls before its first request: the glob, the prefix asked for and whether
\* the delimiter '/' is set
ls_request ==
  LET glob == Glob_new(ls_args.key, ls_args.glob) IN
  [glob |-> glob,
   key |-> IF glob = <<>> THEN ls_args.key ELSE glob[1].prefix,
   separator |-> ~(ls_args.recurse \/ (glob # <<>> /\ glob[1].has_recursive_wildcard))]

InitLs ==
  /\ TransferIdle
  /\ GetIdle
  /\ PairIdle
  /\ FnIdle
  /\ SeenIdle
  /\ ls_args \in [key : {<<>>, <<"a">>, <<"a", "/">>, <<"*">>, <<"a", "/", "*">>,
                         <<"a", "/", "*", "*">>},
                  glob : {"Off", "Auto", "On"},
                  recurse : BOOLEAN, directory : BOOLEAN, substring : BOOLEAN]
  /\ \E n \in 0..MaxObjs :
        \E keys \in [1..n -> (Str(KeyChars, MaxRelLen) \ {<<>>})
                                \cup {<<"a", "/", "a", "/", "a">>}] :
           l_store = {keys[i] : i \in 1..n}
  /\ l_key = <<>> /\ l_token = <<>> /\ l_pc = "idle" /\ l_started = {} /\ l_dirs = {}
  /\ ls_pc = "start"
  /\ ls_root = <<>>
  /\ ls_token = <<>>
  /\ ls_reqs = <<>>
  /\ ls_log = <<>>

\* `continuation_token = response.next_continuation_token`
next_token_echoed(response) == response.continuation_token
next_token(response) == response.next_continuation_token

\* the answer to request `req` is consumed: the first page (of the first listing, or of
\* the directory listing that replaced it) against directory_prefix with a new
\* SeenDirectories, a continuation page against relative_root; a panic of
\* Glob::matches ends the run
ls_page(req, response, relative_root, first) ==
  LET is_requested_path_directory ==
        \E i \in DOMAIN response.contents :
           /\ has_prefix(response.contents[i], relative_root)
           /\ starts_with(after_prefix(response.contents[i], relative_root), "/")
      directory_prefix ==
        IF ~first THEN relative_root
        ELSE IF /\ ls_args.recurse
                /\ ~is_explicitly_directory(relative_root)
                /\ is_requested_path_directory
          THEN to_explicit_directory(relative_root)
          ELSE trim_end_matches(relative_root)
      prefix_len == IF first THEN new_prefix_len(relative_root) ELSE sd_prefix_len
      c == ls_consume_response(ls_args, response, directory_prefix,
                               IF first THEN {} ELSE sd_seen, prefix_len,
                               ls_request.glob, Len(ls_reqs) + 1)
      panics == {i \in DOMAIN c.log : c.log[i].shown = "panic"}
  IN /\ ls_reqs' = Append(ls_reqs, [prefix |-> req.prefix, token |-> req.token,
                                    next |-> response.next_continuation_token])
     /\ ls_log' = ls_log \o (IF panics = {} THEN c.log ELSE SubSeq(c.log, 1, Min(panics)))
     /\ sd_seen' = c.seen
     /\ sd_prefix' = relative_root
     /\ sd_prefix_len' = prefix_len
     /\ ls_root' = relative_root
     /\ ls_token' = next_token(response)
     /\ ls_pc' = IF panics # {} THEN "panic"
                 ELSE IF next_token(response) # <<>> THEN "more" ELSE "done"

\* whether the first answer names the requested key as a directory
probe_any(response, directory_name) == Len(response.common_prefixes) > 0
probe(response, directory_name) ==
  /\ Len(response.contents) = 0
  /\ response.common_prefixes = <<directory_name>>

\* the first request; when its answer is nothing but the requested key as a directory
\* the directory listing is requested next, else the answer is consumed
ls_list ==
  /\ ls_pc = "start"
  /\ \E ok \in BOOLEAN :
       LET response == list_objects_v2(l_store, ls_request.key, ls_request.separator, <<>>)
       IN IF ~ok
            THEN ls_pc' = "err" /\ UNCHANGED <<ls_root, ls_token, ls_reqs, ls_log, sd_seen,
                                               sd_prefix, sd_prefix_len>>
          ELSE IF /\ ~ls_args.directory
                  /\ ls_request.glob = <<>>
                  /\ probe(response, to_explicit_directory(ls_args.key))
            THEN /\ ls_pc' = "probe"
                 /\ ls_reqs' = Append(ls_reqs, [prefix |-> ls_request.key, token |-> <<>>,
                                         next |-> response.next_continuation_token])
                 /\ UNCHANGED <<ls_root, ls_token, ls_log, sd_seen, sd_prefix, sd_prefix_len>>
          ELSE ls_page([prefix |-> ls_request.key, token |-> <<>>], response,
                       ls_request.key, TRUE)
  /\ UNCHANGED <<tvars, gvars, fvars, pvars, lvars, ls_args, sd_log, sd_keys>>

\* the directory listing is requested and replaces the first answer
ls_probe ==
  /\ ls_pc = "probe"
  /\ \E ok \in BOOLEAN :
       LET directory_name == to_explicit_directory(ls_args.key) IN
       IF ~ok
         THEN ls_pc' = "err" /\ UNCHANGED <<ls_root, ls_token, ls_reqs, ls_log, sd_seen,
                                            sd_prefix, sd_prefix_len>>
         ELSE ls_page([prefix |-> directory_name, token |-> <<>>],
                      list_objects_v2(l_store, directory_name, ls_request.separator, <<>>),
                      directory_name, TRUE)
  /\ UNCHANGED <<tvars, gvars, fvars, pvars, lvars, ls_args, sd_log, sd_keys>>

\* `while continuation_token.is_some()`: the next page is requested with the token
\* and consumed
ls_continue ==
  /\ ls_pc = "more"
  /\ \E ok \in BOOLEAN :
       IF ~ok
         THEN ls_pc' = "err" /\ UNCHANGED <<ls_root, ls_token, ls_reqs, ls_log, sd_seen,
                                            sd_prefix, sd_prefix_len>>
         ELSE ls_page([prefix |-> ls_root, token |-> ls_token],
                      list_objects_v2(l_store, ls_root, ls_request.separator, ls_token),
                      ls_root, FALSE)
  /\ UNCHANGED <<tvars, gvars, fvars, pvars, lvars, ls_args, sd_log, sd_keys>>

NextLs == ls_list \/ ls_probe \/ ls_continue

SpecLs == InitLs /\ [][NextLs]_vars /\ WF_vars(NextLs)

Next ==
  \/ push_root
  \/ ctrlc_cancel
  \/ select_some
  \/ select_none
  \/ select_cancelled
  \/ \E t \in Tasks :
       \/ acquire_owned(t)
       \/ child_return(t)
       \/ stat_err(t) \/ stat_file(t) \/ stat_dir(t) \/ put_ok(t) \/ put_err(t)
       \/ read_dir_err(t) \/ read_dir_ok(t) \/ next_entry_some(t)
       \/ next_entry_none(t) \/ next_entry_err(t)
       \/ get_err(t) \/ get_no_such_key(t) \/ write_finished(t) \/ write_failed(t)
       \/ list_err(t) \/ list_empty(t)
       \/ page_dir_ok(t) \/ page_dir_err(t) \/ page_file(t)
       \/ \E p \in Paths : get_open(t, p)
       \/ \E k \in 1..MaxTasks : list_page(t, k)

Spec == Init /\ [][Next]_vars

\* every call a task awaits returns, and the runtime polls a future that can go on;
\* whether ctrl_c ever fires is left open
SpecLive == Spec /\ WF_vars(Next /\ UNCHANGED cancellation)

(***************************************************************************)
(* Properties of the orchestrator.                                         *)
(***************************************************************************)

InFlight == {t \in Tasks : pc[t] \in LeafPcs}
Returned == mainpc = "returned"

\* C1: in every state of an upload or download run, the number of leaf transfers in
\* flight (a put, or a get attempt, holding a permit) is at most the concurrency limit
C1_ConcurrencyBound == Cardinality(InFlight) <= opts.concurrency

\* the limit is reached while another future waits for a permit
C1_Witness ==
  /\ opts.concurrency = 2
  /\ Cardinality(InFlight) = 2
  /\ permits = 0
  /\ \E t \in Tasks : pc[t] = "pending" /\ Polling(t)

\* C5: when a download command returns Success no ".sup3.partial" file it created
\* is left on disk
C5_NoTempAfterSuccess ==
  (opts.mode = "download" /\ result = "Success") => temps = {}

\* a recursive download of a listing whose files were all renamed into place
C5_Witness ==
  /\ opts.mode = "download"
  /\ result = "Success"
  /\ \E t \in Tasks : parent[t] # 0 /\ pc[t] = "done"

\* C6 as stated: the total error count of a batch that is not cancelled equals the
\* number of leaf transfers that terminated in failure
C6_LeafFailuresOnly ==
  (Returned /\ result # "Cancelled") => main_error_count = hist.leafFail

\* C6 amended: the total equals the failed leaf transfers plus the failures the
\* expansion tasks counted themselves (directory without recursive, unreadable
\* directory or entry, failed listing page, failed directory creation with
\* continue-on-error off)
C6_CountedFailures ==
  (Returned /\ result # "Cancelled") =>
     main_error_count = hist.leafFail + hist.expFail

\* a continue-on-error batch that ended with both kinds of failure counted
C6_Witness ==
  /\ Returned /\ result = "ErrorSomeOperationsFailed"
  /\ opts.continue_on_error
  /\ hist.leafFail >= 1 /\ hist.expFail >= 1
  /\ main_error_count >= 2

\* C7: a batch that is not cancelled returns Success exactly when no operation in it
\* failed, and ErrorSomeOperationsFailed otherwise
C7_SuccessIffNoFailure ==
  (Returned /\ result # "Cancelled") =>
     /\ result \in {"Success", "ErrorSomeOperationsFailed"}
     /\ result = "Success" <=> hist.leafFail + hist.expFail + hist.dirSkipped = 0

\* C8: a cancellation signal set while the top-level loop has outstanding tasks makes
\* the command result Cancelled
C8_CancelledWins ==
  (Returned /\ hist.cancelOutstanding) => result = "Cancelled"

\* C9: once the cancellation signal is set it stays set and no new leaf transfer
\* (put or get) is started
C9_NoStartAfterCancel ==
  [][cancellation =>
       /\ cancellation'
       /\ \A t \in Tasks : pc'[t] \in LeafPcs => pc[t] \in LeafPcs]_vars

\* C10: with continue-on-error off, when the orchestrator returns after a failure no
\* launched task has been abandoned before reaching a terminal state
C10_NoTaskAbandoned ==
  (Returned /\ ~opts.continue_on_error /\ result = "ErrorSomeOperationsFailed") =>
     \A t \in Tasks : pc[t] # "dropped"

\* C2: during a single-object download, in every state and on every exit path, the
\* final path holds either what it held before the download or the whole object,
\* never a part of it.
C2_FinalNeverPartial ==
  g_pc # "idle" => (g_fs[path_final] = g_fs0[path_final] \/ g_fs[path_final] = File(g_obj))

\* the download is under way: part of the object is in the temp file, more is to
\* come, and the final path is as it was
C2_Witness ==
  /\ g_pc = "loop" /\ g_sent < Len(g_obj)
  /\ g_fs[Tmp].exists /\ Len(g_fs[Tmp].data) >= 1
  /\ g_fs[path_final] = g_fs0[path_final]

\* C3: after new, any chunk writes and a successful finished(), the final path exists
\* and holds exactly the written chunks in order, and the temp path does not exist.
C3_FinishedRoundTrip ==
  (g_how = "finished" /\ g_res = "ok")
     => (g_fs[path_final] = File(g_written) /\ ~g_fs[Tmp].exists)

\* two different chunks were written, finished() succeeded
C3_Witness ==
  g_how = "finished" /\ g_res = "ok" /\ g_written = <<2, 1>>

\* C4: after new, any chunk writes, and then cancelled() or a drop without a terminal
\* call, the final path was not created by this instance and the temp path does not
\* exist.
C4_CancelLeavesNothing ==
  g_how \in {"cancelled", "drop"}
     => (g_fs[path_final] = g_fs0[path_final] /\ ~g_fs[Tmp].exists)

\* C13: a file D/<rel>/<name> of a recursive upload of directory D to the Uri key U is
\* put at <U>/<basename(D)>/<rel>/<name>, a '/' separating the destination prefix
\* from the directory basename whether or not U ends with '/'.
C13_UploadKey ==
  (f_done /\ f_call.fn = "upload") =>
     LET RECURSIVE Join(_)
         Join(ds) == IF ds = <<>> THEN <<>> ELSE Head(ds) \o <<"/">> \o Join(Tail(ds))
     IN f_out = to_explicit_directory(f_call.to) \o Join(f_call.dirs) \o f_call.name

\* C15: the download Target is a Directory for an existing directory; a File for an
\* existing non-directory with one source and an argument error with several; a
\* created Directory for a nonexistent path with several sources or recursive mode;
\* a File, with no directory created, for a nonexistent path with one source and
\* recursive off.
C15_TargetResolution ==
  (f_done /\ f_call.fn = "target") =>
     LET c == f_call
         o == f_out
     IN /\ c.meta = "dir" => o.kind = "Directory"
        /\ (c.meta = "file" /\ c.nuris = 1) => o.kind = "File"
        /\ (c.meta = "file" /\ c.nuris > 1) => o.kind = "Err"
        /\ (c.meta = "notfound" /\ (c.nuris > 1 \/ c.recursive) /\ c.mkdir_ok)
              => (o.kind = "Directory" /\ o.created)
        /\ (c.meta = "notfound" /\ c.nuris = 1 /\ ~c.recursive)
              => (o.kind = "File" /\ ~o.created)

\* C19: glob_has_resursive_wildcard is true exactly when the pattern holds a "**"
\* that is not immediately preceded by an odd number of backslashes.
C19_RecursiveWildcard ==
  (f_done /\ f_call.fn = "glob") =>
     LET s == f_call.s
         Run(i) == CHOOSE k \in 0..(i - 1) :
                      /\ \A j \in (i - k)..(i - 1) : s[j] = "\\"
                      /\ (k = i - 1 \/ s[i - k - 1] # "\\")
     IN f_out <=> \E i \in StarStars(s) : Run(i) % 2 = 0

\* C20: to_explicit_directory(k) is explicitly a directory, applying it again changes
\* nothing, and an empty key or a key ending in '/' is returned unchanged.
C20_ExplicitDirectoryIdempotent ==
  (f_done /\ f_call.fn = "key") =>
     /\ is_explicitly_directory(f_out)
     /\ to_explicit_directory(f_out) = f_out
     /\ (f_call.s = <<>> \/ ends_with(f_call.s, "/")) => f_out = f_call.s

\* a key with two segments and no trailing '/' was made explicit
C20_Witness ==
  f_done /\ f_call.fn = "key" /\ f_call.s = <<"a", "/", "a">> /\ f_out = <<"a", "/", "a", "/">>

\* every directory add_key has returned, in the order of emission
Announced ==
  LET RECURSIVE Flat(_)
      Flat(lists) == IF lists = <<>> THEN <<>> ELSE Head(lists) \o Flat(Tail(lists))
  IN Flat(sd_log)

\* the non-empty segments of a path: the directory it names on a filesystem
RECURSIVE Segs(_)
Segs(s) ==
  IF s = <<>> THEN <<>>
  ELSE IF Slashes(s) = {} THEN <<s>>
  ELSE IF rsplit_below(s) = <<>> THEN Segs(rsplit_above(s))
  ELSE Append(Segs(rsplit_above(s)), rsplit_below(s))

\* C16: across any sequence of add_key calls on one instance no directory string is
\* returned more than once, neither twice in one list nor in two calls.
C16_AnnouncedOnce ==
  \A i, j \in DOMAIN Announced : i # j => Announced[i] # Announced[j]

\* the second call shares its directory with the first and returns nothing
C16_Witness ==
  Len(sd_log) = 2 /\ sd_log[1] = <<<<"a">>, <<"a", "/", "a">>>> /\ sd_log[2] = <<>>

\* C17: every returned list runs from shallowest to deepest, and the parent of every
\* returned directory, when it lies below the root prefix, was returned earlier.
C17_ParentsFirst ==
  /\ \A c \in DOMAIN sd_log : \A i \in 1..(Len(sd_log[c]) - 1) :
        Len(sd_log[c][i]) < Len(sd_log[c][i + 1])
  /\ \A i \in DOMAIN Announced :
        LET d == Announced[i]
            root == to_explicit_directory(sd_prefix)
            up == SubSeq(Segs(d), 1, Len(Segs(d)) - 1)
        IN (/\ Len(d) >= Len(root) /\ SubSeq(d, 1, Len(root)) = root
            /\ Len(up) > Len(Segs(sd_prefix)))
           => \E j \in 1..(i - 1) : Segs(Announced[j]) = up

\* a second call returns a directory whose parent the first call returned
C17_Witness ==
  /\ sd_prefix = <<>> /\ Len(sd_log) = 2
  /\ sd_log[1] = <<<<"a">>>> /\ sd_log[2] = <<<<"a", "/", "a">>>>

\* C18: add_key never returns the root prefix directory itself, with or without its
\* trailing '/', nor any directory at or above the depth of the prefix.
C18_RootNeverAnnounced ==
  \A i \in DOMAIN Announced :
     /\ Len(Announced[i]) > Len(strip_suffix(sd_prefix))
     /\ Announced[i] # strip_suffix(sd_prefix)
     /\ Announced[i] # Append(strip_suffix(sd_prefix), "/")

\* C14: with recursive off, a download whose get finds no object at the key issues no
\* listing request, and the command, unless cancelled, returns
\* ErrorSomeOperationsFailed with the failure counted.
C14_NoSuchKeyCounted ==
  (opts.mode = "download" /\ ~opts.recursive) =>
     /\ \A t \in Tasks : pc[t] \notin {"list", "page", "drain"}
     /\ (hist.noSuchKey /\ Returned /\ result # "Cancelled")
           => (result = "ErrorSomeOperationsFailed" /\ main_error_count >= 1)

\* a non-recursive download of one Uri with no object at its key has returned
C14_Witness ==
  /\ opts.mode = "download" /\ ~opts.recursive /\ opts.nroots = 1
  /\ hist.noSuchKey /\ result = "ErrorSomeOperationsFailed" /\ main_error_count = 1

\* C11: a recursive download whose listing ended without a failed page has started a
\* child download for every object key the backend holds under the prefix, whatever
\* the number of listing pages
C11_EveryKeyStarted ==
  l_pc = "done" => {x.key : x \in l_started} = l_store

\* C12: every local path of a recursive download stays under the target directory and
\* mirrors the key's suffix beyond the requested prefix, for a prefix given with or
\* without its trailing '/'; stores holding a key with an empty segment below the
\* prefix are left out
C12_PathsMirrorSuffix ==
  LET rel(key) == SubSeq(key, Len(sd_prefix) + 1, Len(key))
      plain(s) == \A i \in DOMAIN s : s[i] = "/" => (i > 1 /\ s[i - 1] # "/")
  IN (\A k \in l_store : plain(rel(k))) =>
        \A x \in l_started \cup l_dirs :
           x.path # <<>> =>
              /\ ~starts_with(x.path, "/")
              /\ Segs(x.path) = Segs(TargetDir) \o Segs(rel(x.key))

\* C21: the key of a Uri never begins with '/': neither the key parsed from a textual
\* address, whatever the number of leading slashes of its path, nor the key
\* child_directory makes from it
C21_KeyNeverAbsolute ==
  (f_done /\ f_call.fn = "uri") =>
     (~starts_with(f_out.key, "/") /\ ~starts_with(f_out.child, "/"))

C23_FinalHoldsOneObject ==
  (p_dir # <<>> /\ p_dir["final"] # 0) =>
     \E i \in 1..2 : p_data[p_dir["final"]] = [k \in 1..p_len[i] |-> i]

\* C24: if every call that is awaited returns, upload()/download() eventually return a
\* result, for every concurrency limit, nesting depth and continue-on-error setting:
\* no task waits forever for a permit
C24_EventuallyReturns == <>Returned

\* under a limit of one permit a task two levels below a root ran and the command
\* returned
C24_Witness ==
  /\ opts.concurrency = 1
  /\ Returned /\ result = "Success"
  /\ \E t \in Tasks : parent[t] # 0 /\ parent[parent[t]] # 0 /\ pc[t] = "done"

\* C25: every permit is either in the semaphore or owned by a task that stats its path
\* or runs its put or get attempt; a task that reads a directory, fetches listing
\* pages or awaits its children owns none, and a task that has returned or was dropped
\* owns none
C25_NoPermitWhileExpanding ==
  permits + Cardinality({t \in Tasks : pc[t] \in Holding}) = opts.concurrency

\* with the only permit back in the semaphore, a directory task awaits its child,
\* which has not taken it yet
C25_Witness ==
  /\ opts.concurrency = 1
  /\ permits = 1
  /\ \E t \in Tasks : pc[t] = "drain" /\ \E c \in LiveChildren(t) : pc[c] = "pending"

\* C26: when reading a directory entry fails during a recursive upload, one failure is
\* counted and the child tasks already pushed for earlier entries of that directory are
\* kept: none of them is dropped by the step that ends the enumeration
C26_SpawnedChildrenRun ==
  [][\A t \in Tasks :
        (/\ opts.mode = "upload"
         /\ pc[t] = "enumerate"
         /\ hist'.expFail = hist.expFail + 1)
           => /\ \A c \in LiveChildren(t) : pc'[c] = pc[c]
              /\ (pc'[t] = "done" => ret'.count = 1)
              /\ (pc'[t] = "drain" => error_count'[t] = 1)]_vars

\* C27: a non-recursive upload has no task beyond its roots and none that reads a
\* directory, and the step of a task that finds its path to be a directory returns
\* exactly 1 from the stat position (no put was issued), gives the permit back and
\* leaves every other task where it was; a run in which that happened and that was
\* not cancelled ends with ErrorSomeOperationsFailed
C27_DirectoryWithoutRecursive ==
  /\ [](opts.mode = "upload" /\ ~opts.recursive =>
          /\ \A t \in Tasks : parent[t] = 0 /\ pc[t] \notin {"read_dir", "enumerate", "drain"}
          /\ (Returned /\ result # "Cancelled" /\ hist.expFail > 0)
                => result = "ErrorSomeOperationsFailed")
  /\ [][(opts.mode = "upload" /\ ~opts.recursive /\ hist'.expFail # hist.expFail) =>
          \E t \in Tasks :
             /\ pc[t] = "stat" /\ pc'[t] = "done"
             /\ ret' = [t |-> t, count |-> 1]
             /\ permits' = permits + 1
             /\ hist'.expFail = hist.expFail + 1
             /\ \A x \in Tasks \ {t} : pc'[x] = pc[x]]_vars

\* two roots under continue-on-error: the directory was refused, the other path was
\* uploaded, and the failure is in the result
C27_Witness ==
  /\ opts.mode = "upload" /\ ~opts.recursive /\ opts.continue_on_error
  /\ hist.expFail = 1 /\ hist.leafFail = 0
  /\ Returned /\ result = "ErrorSomeOperationsFailed" /\ main_error_count = 1
  /\ \A t \in 1..2 : pc[t] = "done"

\* C28: a recursive listing of a prefix under which the backend holds nothing ends as
\* a "no such key" error of the page, which the download counts once, unless the
\* request itself failed; and no listing ends as success without a file started
C28_EmptyListingIsError ==
  /\ (l_store = {} /\ l_pc \notin {"idle", "stream"}) => l_pc \in {"no_such_key", "err"}
  /\ l_pc = "no_such_key" => l_store = {}
  /\ l_pc = "done" => l_started # {}

\* the listing of an empty prefix has ended with the error
C28_Witness == l_pc = "no_such_key" /\ l_store = {} /\ l_key = <<"a">>

\* C29: in a recursive download a create_dir that reports AlreadyExists is no failure,
\* with continue-on-error on or off: the step adds nothing to any error count, returns
\* from no task and moves the page loop on to the next entry; and a run in which
\* nothing else failed and that was not cancelled returns Success
C29_AlreadyExistsTolerated ==
  /\ []((Returned /\ result # "Cancelled" /\ hist.dirExisted
           /\ hist.leafFail + hist.expFail + hist.dirSkipped = 0) => result = "Success")
  /\ [][(hist'.dirExisted /\ ~hist.dirExisted) =>
          /\ error_count' = error_count /\ main_error_count' = main_error_count
          /\ pc' = pc /\ ret' = ret
          /\ hist'.expFail = hist.expFail /\ hist'.dirSkipped = hist.dirSkipped
          /\ \E t \in Tasks : pc[t] = "page" /\ ~dirdone[t] /\ dirdone'[t]]_vars

\* with continue-on-error off a directory was found existing and the download of the
\* file below it succeeded
C29_Witness ==
  /\ opts.mode = "download" /\ ~opts.continue_on_error
  /\ hist.dirExisted
  /\ Returned /\ result = "Success"
  /\ \E t \in Tasks : parent[t] # 0 /\ pc[t] = "done"

C38_FinalSegment ==
  (f_done /\ f_call.fn = "component") =>
     LET stripped == strip_suffix(f_call.key)
     IN f_out = IF Slashes(stripped) = {} THEN stripped
                ELSE SubSeq(stripped, Max(Slashes(stripped)) + 1, Len(stripped))

\* C39: for a non-empty list longest_file_display_prefix returns a string that is a
\* prefix of every input and, when it holds a '/', ends with '/': the longest common
\* prefix cut back behind its last '/'; for the empty list it returns the empty string
C39_CommonComponentPrefix ==
  (f_done /\ f_call.fn = "prefix") =>
     LET l == f_call.strings
         IsPrefix(p, str) == Len(p) <= Len(str) /\ SubSeq(str, 1, Len(p)) = p
         Common == {p \in Str(PathChars, MaxPathLen) : \A i \in 1..Len(l) : IsPrefix(p, l[i])}
         lcp == CHOOSE p \in Common : \A q \in Common : Len(q) <= Len(p)
     IN IF l = <<>> THEN f_out = <<>>
        ELSE /\ f_out \in Common
             /\ Slashes(f_out) # {} => ends_with(f_out, "/")
             /\ f_out = IF Slashes(lcp) = {} THEN lcp ELSE SubSeq(lcp, 1, Max(Slashes(lcp)))

\* C39 for strings of one-byte characters
C39_AsciiCommonComponentPrefix ==
  (f_call.fn = "prefix" /\ \A i \in 1..Len(f_call.strings) :
                              \A j \in 1..Len(f_call.strings[i]) : f_call.strings[i][j] # "e")
     => C39_CommonComponentPrefix

\* C34 as stated: key_matches_requested is true exactly when one of the six clauses
\* holds, with or without a glob
C34_AnyClause ==
  (f_done /\ f_call.fn = "matches") =>
     LET r == f_call.requested
         k == f_call.key
         g == f_call.glob
     IN (f_out = "true") <=>
          \/ f_call.args.substring
          \/ (g # <<>> /\ Glob_matches(g[1], k) = "true")
          \/ k = r
          \/ (is_explicitly_directory(r) /\ has_prefix(k, trim_end_matches(r)))
          \/ (f_call.args.recurse /\ has_prefix(k, r \o <<"/">>))
          \/ k = r \o <<"/">>

\* C34: key_matches_requested is true when substring mode is on or key equals
\* requested; otherwise, with a glob, it is what Glob::matches says of the key and
\* nothing else (a key that does not begin with the glob's prefix makes it panic);
\* otherwise, without a glob, it is true exactly when requested is an explicit
\* directory and key starts with its basename, or recurse is on and key is requested
\* followed by '/', or key equals requested plus one trailing '/'
C34_GlobDecidesAlone ==
  (f_done /\ f_call.fn = "matches") =>
     LET r == f_call.requested
         k == f_call.key
         g == f_call.glob
     IN IF f_call.args.substring \/ k = r THEN f_out = "true"
        ELSE IF g # <<>> THEN f_out = Glob_matches(g[1], k)
        ELSE /\ f_out \in {"true", "false"}
             /\ (f_out = "true") <=>
                  \/ (is_explicitly_directory(r) /\ has_prefix(k, trim_end_matches(r)))
                  \/ (f_call.args.recurse /\ has_prefix(k, r \o <<"/">>))
                  \/ k = r \o <<"/">>

\* a key below the requested directory was refused because the glob does not match it
C34_Witness ==
  /\ f_done
  /\ f_call.fn = "matches"
  /\ f_call.glob = <<[prefix |-> <<>>, glob |-> <<"*">>]>>
  /\ f_call.requested = <<>>
  /\ f_call.key = <<"a", "/", "a">>
  /\ ~f_call.args.substring
  /\ f_out = "false"

\* C36: after any sequence of add_key calls with keys that begin with the root prefix,
\* the directories returned so far are exactly the ancestor directories of the keys
\* added that lie strictly below the root prefix
C36_AncestorClosed ==
  (\A c \in DOMAIN sd_keys : has_prefix(sd_keys[c], sd_prefix)) =>
     {Announced[i] : i \in DOMAIN Announced}
       = UNION {{SubSeq(sd_keys[c], 1, i - 1) : i \in Slashes(sd_keys[c])}
                  \ Str(KeyChars, sd_prefix_len) : c \in DOMAIN sd_keys}

\* a key without empty segments: no leading '/' and no "//"
Plain(key) == ~starts_with(key, "/") /\ \A i \in Slashes(key) : i + 1 \notin Slashes(key)

\* C36 for keys and a prefix without empty segments
C36_PlainAncestorClosed ==
  (Plain(sd_prefix) /\ \A c \in DOMAIN sd_keys : Plain(sd_keys[c])) => C36_AncestorClosed

\* C36, with directories compared as the paths they name (empty segments ignored):
\* after add_key calls with keys that begin with the root prefix, the directories
\* returned so far are exactly the ancestor directories of the keys added that lie
\* strictly below the root prefix
C36_NamedAncestorClosed ==
  (\A c \in DOMAIN sd_keys : has_prefix(sd_keys[c], sd_prefix)) =>
     {Segs(Announced[i]) : i \in DOMAIN Announced}
       = UNION {{d \in {Segs(SubSeq(sd_keys[c], 1, i - 1)) : i \in Slashes(sd_keys[c])} :
                   Len(d) > Len(Segs(sd_prefix))} : c \in DOMAIN sd_keys}

\* C35: within one listing sequence of a recursive download the tracker of the stream
\* lets each local subdirectory be given to create_dir at most once: no two Directory
\* entries name the same directory below the target
C35_SubdirectoryCreatedOnce ==
  \A x, y \in l_dirs :
     (x # y /\ x.path # <<>> /\ y.path # <<>>) => Segs(x.path) # Segs(y.path)

\* C35 for listings whose keys have no empty segment, and the listing requests of one
\* sequence: a request with a continuation token is never made
C35_PlainSubdirectoryCreatedOnce ==
  /\ (\A k \in l_store : Plain(k)) => C35_SubdirectoryCreatedOnce
  /\ l_pc = "stream" => l_token = <<>>

\* the pages of the listing ls consumes, from the request without a token on
ListingPages ==
  LET RECURSIVE pages(_)
      pages(token) ==
        LET r == list_objects_v2(l_store, ls_root, ls_request.separator, token) IN
        IF r.next_continuation_token = <<>> THEN <<r>>
        ELSE <<r>> \o pages(r.next_continuation_token)
  IN pages(<<>>)

\* the names of the common prefixes and keys ls_consume_response took from request n
Consumed(n) ==
  LET l == SelectSeq(ls_log, LAMBDA e : e.page = n /\ e.kind # "seen")
  IN [i \in DOMAIN l |-> l[i].name]

\* C31, the requests: a continuation request carries the token and the prefix of the
\* answer before it, ls goes on exactly while the last answer carries a next token,
\* and when ls is done the pages of the listing have each been consumed once, in order
C31_PagesInOrder ==
  /\ \A i \in 2..Len(ls_reqs) :
        ls_reqs[i].token # <<>> =>
           (ls_reqs[i].token = ls_reqs[i - 1].next /\ ls_reqs[i].prefix = ls_reqs[i - 1].prefix)
  /\ ls_pc = "more" => (ls_reqs[Len(ls_reqs)].next # <<>> /\ ls_token = ls_reqs[Len(ls_reqs)].next)
  /\ ls_pc = "done" =>
        /\ ls_reqs[Len(ls_reqs)].next = <<>>
        /\ LET skipped == Len(ls_reqs) - Len(ListingPages) IN
           /\ skipped \in {0, 1}
           /\ \A n \in 1..skipped : Consumed(n) = <<>>
           /\ \A j \in DOMAIN ListingPages :
                 Consumed(skipped + j)
                   = ListingPages[j].common_prefixes \o ListingPages[j].contents

\* C31: ls keeps requesting pages until an answer carries no next continuation token,
\* each continuation request carries the token of the answer before it, every page is
\* consumed once and in order, and ls comes to an end
C31_ListsEveryPage ==
  []C31_PagesInOrder /\ <>(ls_pc \in {"done", "err", "panic"})

\* ls is done after a listing of two pages
C31_Witness ==
  /\ ls_pc = "done"
  /\ Len(ls_reqs) = 2
  /\ ls_reqs[2].token # <<>>
  /\ \E e \in {ls_log[i] : i \in DOMAIN ls_log} : e.page = 2 /\ e.kind = "key"

\* the directory listing was, or is about to be, requested
Probed == ls_pc = "probe" \/ (Len(ls_reqs) >= 2 /\ ls_reqs[2].token = <<>>)

\* C32 with `directory_name` for the requested key as a directory: once the first
\* answer is in, the listing has been re-issued against directory_name exactly when
\* that answer has no key and the one common prefix directory_name, with neither the
\* directory flag nor a glob; only the second request can be the re-issued one, the
\* first answer is then not consumed, and every continuation request carries the
\* prefix and the token of the answer before it (looked at until a request fails)
ProbedExactlyFor(directory_name) ==
  (Len(ls_reqs) >= 1 /\ ls_pc # "err") =>
    LET first == list_objects_v2(l_store, ls_reqs[1].prefix, ls_request.separator, <<>>) IN
    /\ Probed <=> (/\ ~ls_args.directory
                   /\ ls_request.glob = <<>>
                   /\ first.contents = <<>>
                   /\ first.common_prefixes = <<directory_name>>)
    /\ \A i \in 2..Len(ls_reqs) :
          IF ls_reqs[i].token = <<>>
            THEN i = 2 /\ ls_reqs[i].prefix = directory_name
            ELSE ls_reqs[i].prefix = ls_reqs[i - 1].prefix
                 /\ ls_reqs[i].token = ls_reqs[i - 1].next
    /\ Probed => \A i \in DOMAIN ls_log : ls_log[i].page # 1

\* C32 as stated: the probe is made exactly when the one common prefix of the first
\* answer is the requested key plus '/'
C32_ProbeKeyPlusSlash == ProbedExactlyFor(Append(ls_args.key, "/"))

\* C32: the probe is made exactly when the one common prefix of the first answer is
\* the requested key as an explicit directory: the key plus '/', or the key itself
\* when it is empty or ends with '/'
C32_ProbeOnce == ProbedExactlyFor(to_explicit_directory(ls_args.key))

\* the directory listing replaced the first answer and a continuation page followed it
C32_Witness ==
  /\ ls_pc = "done"
  /\ Len(ls_reqs) = 3
  /\ ls_reqs[2].token = <<>>
  /\ ls_reqs[3].token # <<>>
  /\ ls_reqs[3].prefix = <<"a", "/">>

\* C33: every key and common prefix of the listing, on whatever page it arrives, is
\* shown or not, and shown under the relative name, as the first page would have it:
\* key_matches_requested and printable_filename against the root of the first page
C33_SamePageRoot ==
  \A i \in DOMAIN ls_log :
     LET e == ls_log[i]
         root == ls_log[1].root
     IN /\ e.shown = key_matches_requested(root, e.name, ls_args, ls_request.glob)
        /\ e.shown = "true" =>
              e.as = IF has_prefix(e.name, root) THEN after_prefix(e.name, root) ELSE e.name

\* C33 for requests whose relative_root is an explicit directory
C33_DirectorySamePageRoot ==
  (ls_root = <<>> \/ ends_with(ls_root, "/")) => C33_SamePageRoot

\* C37: in a run of ls with a glob every name held against the glob (common prefixes,
\* keys and the directories the tracker makes up, on every page) begins with the
\* glob's prefix, and Glob::matches never panics
C37_GlobPrefixHeld ==
  ls_request.glob # <<>> =>
     /\ ls_pc # "panic"
     /\ \A i \in DOMAIN ls_log :
           /\ ls_log[i].shown # "panic"
           /\ has_prefix(ls_log[i].name, ls_request.glob[1].prefix)

\* with the glob a/** a directory made up by the tracker was held against the glob
\* on the second page
C37_Witness ==
  /\ ls_request.glob # <<>>
  /\ ls_request.glob[1].prefix = <<"a", "/">>
  /\ ls_pc = "done"
  /\ \E i \in DOMAIN ls_log : ls_log[i].kind = "seen" /\ ls_log[i].page = 2

====
